---- MODULE Spec2Model ----
(***************************************************************************)
(* Model of the agent registry, the Codex and Cursor transcript parsers    *)
(* and the timer layer of panda-agents.                                    *)
(*                                                                         *)
(* One action per handler: a webview message, a terminal notification, an  *)
(* interval tick, a timeout callback, or one transcript line handed to the *)
(* provider's processLine.  JavaScript runs each of them to completion, so *)
(* each is one atomic step.                                                *)
(***************************************************************************)
EXTENDS Integers, Sequences, FiniteSets, TLC

\* ------------------------------------------------------------------ bounds
\* launches in one activation (nextAgentId is capped in Launch's guard)
MaxLaunches == 2
\* tool ids drawn from crypto.randomUUID() / generateToolId()
MaxGenIds == 2
\* agentToolDone callbacks scheduled and not yet run
MaxPending == 1
\* transcript files created by a CLI inside a scanned directory
MaxSessionFiles == 1
\* webviewReady messages in one activation
MaxReady == 1
\* inputs (lines, timer firings) recorded in the trace of SpecLog
MaxTrace == 5
\* bytes of a transcript file
MaxFileSize == 3

\* ------------------------------------------------------- program constants
PROVIDER_CLAUDE == "claude"
PROVIDER_CODEX == "codex"
PROVIDER_CURSOR == "cursor"
PROVIDER_IDS == {PROVIDER_CLAUDE, PROVIDER_CODEX, PROVIDER_CURSOR}

BASH_COMMAND_DISPLAY_MAX_LENGTH == 30
CODEX_PERMISSION_EXEMPT == {}
CURSOR_PERMISSION_EXEMPT == {}

NoTerminal == ""
NoPath == ""
\* the line terminator of a transcript, and the bytes a CLI may append
NL == "\n"
Bytes == {"a", NL}
NoAgent == 0
Home == "~"
Cwd == "/w"

\* ---------------------------------------------------------------- providers
needsTerminal(p) == p # PROVIDER_CURSOR
usesProjectScan(p) == p # PROVIDER_CURSOR
terminalNamePrefix(p) ==
  CASE p = PROVIDER_CLAUDE -> "Claude Code"
    [] p = PROVIDER_CODEX -> "Codex"
    [] OTHER -> "Cursor"
displayName(p) ==
  CASE p = PROVIDER_CLAUDE -> "Claude Code"
    [] p = PROVIDER_CODEX -> "Codex"
    [] OTHER -> "Cursor"

CODEX_SESSIONS_DIR == ".codex/sessions"
CURSOR_HOOKS_DIR == ".cursor/hooks"
CURSOR_JSONL_FILE == "panda-agents.jsonl"

\* cwd.replace(/[:\\/]/g, '-')
RECURSIVE DashPath(_)
DashPath(s) ==
  IF Len(s) = 0 THEN ""
  ELSE (IF SubSeq(s, 1, 1) \in {":", "\\", "/"} THEN "-" ELSE SubSeq(s, 1, 1))
       \o DashPath(SubSeq(s, 2, Len(s)))

claudeProjectDir(cwd) == Home \o "/.claude/projects/" \o DashPath(cwd)
codexProjectDir == Home \o "/" \o CODEX_SESSIONS_DIR
cursorProjectDir(cwd) == cwd \o "/" \o CURSOR_HOOKS_DIR

\* provider.launchTerminal: the (projectDir, jsonlFile) pair; n stands for the
\* random session id Claude is started with.
launchTerminal(p, cwd, n) ==
  CASE p = PROVIDER_CLAUDE ->
         [projectDir |-> claudeProjectDir(cwd),
          jsonlFile |-> claudeProjectDir(cwd) \o "/s" \o ToString(n) \o ".jsonl"]
    [] p = PROVIDER_CODEX ->
         [projectDir |-> codexProjectDir, jsonlFile |-> NoPath]
    [] OTHER ->
         [projectDir |-> cursorProjectDir(cwd),
          jsonlFile |-> cursorProjectDir(cwd) \o "/" \o CURSOR_JSONL_FILE]

\* ------------------------------------------------------------ Map helpers
\* A JavaScript Map is a sequence of <<key, value>> pairs in insertion order.
MapKeys(m) == {m[i][1] : i \in 1..Len(m)}
MapHas(m, k) == k \in MapKeys(m)
MapGet(m, k) == m[CHOOSE i \in 1..Len(m) : m[i][1] = k][2]
MapSet(m, k, v) ==
  IF MapHas(m, k)
  THEN [i \in 1..Len(m) |-> IF m[i][1] = k THEN <<k, v>> ELSE m[i]]
  ELSE Append(m, <<k, v>>)
MapDelete(m, k) == SelectSeq(m, LAMBDA e : e[1] # k)

\* ------------------------------------------------------------------ events
\* A message posted to the webview; absent fields are "".
Ev(type, id, toolId, status) ==
  [type |-> type, id |-> id, toolId |-> toolId, status |-> status]
AgentStatus(id, status) == Ev("agentStatus", id, "", status)
AgentToolStart(id, toolId, status) == Ev("agentToolStart", id, toolId, status)
AgentToolDone(id, toolId) == Ev("agentToolDone", id, toolId, "")
AgentToolsClear(id) == Ev("agentToolsClear", id, "", "")
AgentToolPermission(id) == Ev("agentToolPermission", id, "", "")
\* an announcement of the new agent by a status message
AgentCreated_AsStatus(id) == AgentStatus(id, "active")
AgentCreated(id) == Ev("agentCreated", id, "", "")
AgentClosed(id) == Ev("agentClosed", id, "", "")
ExistingAgents == Ev("existingAgents", NoAgent, "", "")

\* -------------------------------------------------------------- AgentState
\* fileOffset counts the bytes of the transcript already consumed, lineBuffer
\* holds the bytes read after the last line terminator.
NewAgent(id, provider, terminal, projectDir, jsonlFile) ==
  [id |-> id, provider |-> provider, terminalRef |-> terminal,
   projectDir |-> projectDir, jsonlFile |-> jsonlFile,
   fileOffset |-> 0, lineBuffer |-> "",
   activeToolIds |-> {}, activeToolStatuses |-> <<>>, activeToolNames |-> <<>>,
   activeSubagentToolIds |-> <<>>, activeSubagentToolNames |-> <<>>,
   isWaiting |-> FALSE, permissionSent |-> FALSE, hadToolsInTurn |-> FALSE]

\* ------------------------------------------------- the state a line handler
\* threads through its statements: the agent object, the two timer maps of the
\* TranscriptContext, the messages posted so far, the agentToolDone callbacks
\* handed to setTimeout, the number of tool ids generated so far, and whether
\* the idle timer was given a new handle.
Ctx(agent, wt, pt, gen) ==
  [agent |-> agent, waitingTimers |-> wt, permissionTimers |-> pt,
   out |-> <<>>, sched |-> <<>>, gen |-> gen, rearmed |-> FALSE]
Post(st, ev) == [st EXCEPT !.out = Append(@, ev)]

\* ------------------------------------------------------------ timerManager
cancelWaitingTimer(agentId, st) ==
  [st EXCEPT !.waitingTimers = @ \ {agentId}]
cancelPermissionTimer(agentId, st) ==
  [st EXCEPT !.permissionTimers = @ \ {agentId}]
\* replace-on-rearm: cancel, then arm
startWaitingTimer(agentId, st) ==
  [cancelWaitingTimer(agentId, st) EXCEPT !.waitingTimers = @ \cup {agentId},
                                          !.rearmed = TRUE]
startPermissionTimer(agentId, st) ==
  [cancelPermissionTimer(agentId, st) EXCEPT !.permissionTimers = @ \cup {agentId}]

\* clears all active-tool tracking, emits the tools-cleared event and puts the
\* agent back to active
clearAgentActivity(agentId, st) ==
  LET s1 == [st EXCEPT !.agent.activeToolIds = {},
                       !.agent.activeToolStatuses = <<>>,
                       !.agent.activeToolNames = <<>>,
                       !.agent.activeSubagentToolIds = <<>>,
                       !.agent.activeSubagentToolNames = <<>>,
                       !.agent.isWaiting = FALSE,
                       !.agent.permissionSent = FALSE]
      s2 == cancelPermissionTimer(agentId, s1)
      s3 == Post(s2, AgentToolsClear(agentId))
  IN Post(s3, AgentStatus(agentId, "active"))

\* ------------------------------------------------------------- codexParser
\* A parsed line: type "" is a record without a type field, "<malformed>" a
\* line JSON.parse rejects.  id is the record's id / exec_id, arg its command,
\* file_path or tool_name ("" when absent).
Line(type, id, arg) == [type |-> type, id |-> id, arg |-> arg]
Malformed == "<malformed>"

Ellipsis == "..."
Truncate(cmd) ==
  IF Len(cmd) > BASH_COMMAND_DISPLAY_MAX_LENGTH
  THEN SubSeq(cmd, 1, BASH_COMMAND_DISPLAY_MAX_LENGTH) \o Ellipsis
  ELSE cmd

formatCodexToolStatus(eventType, record) ==
  IF eventType = "ExecCommandBegin"
  THEN "Running: " \o Truncate(record.arg)
  ELSE "Using " \o eventType

GenId(prefix, n) == prefix \o ToString(n)

\* TurnStarted that leaves an armed idle timer running
CodexTurnStarted_KeepsIdleTimer(agentId, st) ==
  LET s2 == clearAgentActivity(agentId, st)
      s3 == [s2 EXCEPT !.agent.hadToolsInTurn = FALSE]
  IN Post(s3, AgentStatus(agentId, "active"))

CodexTurnStarted(agentId, st) ==
  LET s1 == cancelWaitingTimer(agentId, st)
      s2 == clearAgentActivity(agentId, s1)
      s3 == [s2 EXCEPT !.agent.hadToolsInTurn = FALSE]
  IN Post(s3, AgentStatus(agentId, "active"))

\* TurnEnded that leaves the permission timer armed
CodexTurnEnded_KeepsPermissionTimer(agentId, st) ==
  LET s1 == cancelWaitingTimer(agentId, st)
      s3 == IF s1.agent.activeToolIds # {}
            THEN Post([s1 EXCEPT !.agent.activeToolIds = {},
                                 !.agent.activeToolStatuses = <<>>,
                                 !.agent.activeToolNames = <<>>,
                                 !.agent.activeSubagentToolIds = <<>>,
                                 !.agent.activeSubagentToolNames = <<>>],
                      AgentToolsClear(agentId))
            ELSE s1
      s4 == [s3 EXCEPT !.agent.isWaiting = TRUE,
                       !.agent.permissionSent = FALSE,
                       !.agent.hadToolsInTurn = FALSE]
  IN Post(s4, AgentStatus(agentId, "waiting"))

\* TurnEnded that posts agentToolsClear whether or not a tool was open
CodexTurnEnded_AlwaysClears(agentId, st) ==
  LET s1 == cancelWaitingTimer(agentId, st)
      s2 == cancelPermissionTimer(agentId, s1)
      s3 == Post([s2 EXCEPT !.agent.activeToolIds = {},
                            !.agent.activeToolStatuses = <<>>,
                            !.agent.activeToolNames = <<>>,
                            !.agent.activeSubagentToolIds = <<>>,
                            !.agent.activeSubagentToolNames = <<>>],
                 AgentToolsClear(agentId))
      s4 == [s3 EXCEPT !.agent.isWaiting = TRUE,
                       !.agent.permissionSent = FALSE,
                       !.agent.hadToolsInTurn = FALSE]
  IN Post(s4, AgentStatus(agentId, "waiting"))

CodexTurnEnded(agentId, st) ==
  LET s1 == cancelWaitingTimer(agentId, st)
      s2 == cancelPermissionTimer(agentId, s1)
      s3 == IF s2.agent.activeToolIds # {}
            THEN Post([s2 EXCEPT !.agent.activeToolIds = {},
                                 !.agent.activeToolStatuses = <<>>,
                                 !.agent.activeToolNames = <<>>,
                                 !.agent.activeSubagentToolIds = <<>>,
                                 !.agent.activeSubagentToolNames = <<>>],
                      AgentToolsClear(agentId))
            ELSE s2
      s4 == [s3 EXCEPT !.agent.isWaiting = TRUE,
                       !.agent.permissionSent = FALSE,
                       !.agent.hadToolsInTurn = FALSE]
  IN Post(s4, AgentStatus(agentId, "waiting"))

\* a tool start that leaves the waiting flag as it is
CodexExecCommandBegin_KeepsWaiting(agentId, record, st) ==
  LET fresh == record.id = ""
      toolId == IF fresh THEN GenId("uuid-", st.gen + 1) ELSE record.id
      status == formatCodexToolStatus("ExecCommandBegin", record)
      s1 == [st EXCEPT !.gen = IF fresh THEN @ + 1 ELSE @,
                       !.agent.activeToolIds = @ \cup {toolId},
                       !.agent.activeToolStatuses = MapSet(@, toolId, status),
                       !.agent.activeToolNames = MapSet(@, toolId, "shell"),
                       !.agent.hadToolsInTurn = TRUE]
      s2 == Post(s1, AgentStatus(agentId, "active"))
      s3 == Post(s2, AgentToolStart(agentId, toolId, status))
  IN startPermissionTimer(agentId, s3)

CodexExecCommandBegin(agentId, record, st) ==
  LET fresh == record.id = ""
      toolId == IF fresh THEN GenId("uuid-", st.gen + 1) ELSE record.id
      status == formatCodexToolStatus("ExecCommandBegin", record)
      s1 == [st EXCEPT !.gen = IF fresh THEN @ + 1 ELSE @,
                       !.agent.activeToolIds = @ \cup {toolId},
                       !.agent.activeToolStatuses = MapSet(@, toolId, status),
                       !.agent.activeToolNames = MapSet(@, toolId, "shell"),
                       !.agent.hadToolsInTurn = TRUE,
                       !.agent.isWaiting = FALSE]
      s2 == Post(s1, AgentStatus(agentId, "active"))
      s3 == Post(s2, AgentToolStart(agentId, toolId, status))
  IN startPermissionTimer(agentId, s3)

\* ExecCommandEnd that posts agentToolDone at once instead of through setTimeout
CodexExecCommandEnd_Immediate(agentId, record, st) ==
  LET toolId == record.id
      s1 == IF toolId # "" /\ toolId \in st.agent.activeToolIds
            THEN Post([st EXCEPT !.agent.activeToolIds = @ \ {toolId},
                                 !.agent.activeToolStatuses = MapDelete(@, toolId),
                                 !.agent.activeToolNames = MapDelete(@, toolId)],
                      AgentToolDone(agentId, toolId))
            ELSE st
  IN IF s1.agent.activeToolIds = {}
     THEN [s1 EXCEPT !.agent.hadToolsInTurn = FALSE]
     ELSE s1

\* ExecCommandEnd that schedules agentToolDone for an id that is not open
CodexExecCommandEnd_NoGuard(agentId, record, st) ==
  LET toolId == record.id
      s1 == [st EXCEPT !.agent.activeToolIds = @ \ {toolId},
                       !.agent.activeToolStatuses = MapDelete(@, toolId),
                       !.agent.activeToolNames = MapDelete(@, toolId),
                       !.sched = Append(@, [id |-> agentId, toolId |-> toolId])]
  IN IF s1.agent.activeToolIds = {}
     THEN [s1 EXCEPT !.agent.hadToolsInTurn = FALSE]
     ELSE s1

\* ExecCommandEnd that leaves hadToolsInTurn alone when the last tool ends
CodexExecCommandEnd_NoReset(agentId, record, st) ==
  LET toolId == record.id
  IN IF toolId # "" /\ toolId \in st.agent.activeToolIds
     THEN [st EXCEPT !.agent.activeToolIds = @ \ {toolId},
                     !.agent.activeToolStatuses = MapDelete(@, toolId),
                     !.agent.activeToolNames = MapDelete(@, toolId),
                     !.sched = Append(@, [id |-> agentId, toolId |-> toolId])]
     ELSE st

CodexExecCommandEnd(agentId, record, st) ==
  LET toolId == record.id
      s1 == IF toolId # "" /\ toolId \in st.agent.activeToolIds
            THEN [st EXCEPT !.agent.activeToolIds = @ \ {toolId},
                            !.agent.activeToolStatuses = MapDelete(@, toolId),
                            !.agent.activeToolNames = MapDelete(@, toolId),
                            !.sched = Append(@, [id |-> agentId, toolId |-> toolId])]
            ELSE st
  IN IF s1.agent.activeToolIds = {}
     THEN [s1 EXCEPT !.agent.hadToolsInTurn = FALSE]
     ELSE s1

CodexExecOutputDelta_NoRearm(agentId, record, st) == st

CodexExecOutputDelta(agentId, record, st) ==
  LET parentId == record.id
  IN IF parentId # "" /\ parentId \in st.agent.activeToolIds
     THEN startPermissionTimer(agentId, st)
     ELSE st

CodexApprovalRequest(agentId, st) ==
  Post([st EXCEPT !.agent.permissionSent = TRUE], AgentToolPermission(agentId))

\* streaming text that arms the idle timer whether or not a tool ran in the turn
CodexAgentMessageDelta_AlwaysArms(agentId, st) == startWaitingTimer(agentId, st)

CodexAgentMessageDelta(agentId, st) ==
  IF ~st.agent.hadToolsInTurn THEN startWaitingTimer(agentId, st) ELSE st

CodexUserMessage(agentId, st) ==
  LET s1 == cancelWaitingTimer(agentId, st)
      s2 == clearAgentActivity(agentId, s1)
  IN [s2 EXCEPT !.agent.hadToolsInTurn = FALSE]

\* a parser that takes every record of a type it does not know for a tool start
processCodexLine_UnknownAsTool(agentId, line, st) ==
  IF line.type = Malformed THEN st
  ELSE IF line.type = "" THEN st
  ELSE IF line.type = "TurnStarted" THEN CodexTurnStarted(agentId, st)
  ELSE IF line.type = "TurnEnded" THEN CodexTurnEnded(agentId, st)
  ELSE IF line.type = "ExecCommandBegin" THEN CodexExecCommandBegin(agentId, line, st)
  ELSE IF line.type = "ExecCommandEnd" THEN CodexExecCommandEnd(agentId, line, st)
  ELSE IF line.type = "ExecOutputDelta" THEN CodexExecOutputDelta(agentId, line, st)
  ELSE IF line.type = "ApprovalRequest" THEN CodexApprovalRequest(agentId, st)
  ELSE IF line.type = "AgentMessageDelta" THEN CodexAgentMessageDelta(agentId, st)
  ELSE IF line.type = "UserMessage" THEN CodexUserMessage(agentId, st)
  ELSE CodexExecCommandBegin(agentId, line, st)

processCodexLine(agentId, line, st) ==
  IF line.type = Malformed THEN st          \* JSON.parse throws, caught
  ELSE IF line.type = "" THEN st            \* SessionMeta header or no type
  ELSE IF line.type = "TurnStarted" THEN CodexTurnStarted(agentId, st)
  ELSE IF line.type = "TurnEnded" THEN CodexTurnEnded(agentId, st)
  ELSE IF line.type = "ExecCommandBegin" THEN CodexExecCommandBegin(agentId, line, st)
  ELSE IF line.type = "ExecCommandEnd" THEN CodexExecCommandEnd(agentId, line, st)
  ELSE IF line.type = "ExecOutputDelta" THEN CodexExecOutputDelta(agentId, line, st)
  ELSE IF line.type = "ApprovalRequest" THEN CodexApprovalRequest(agentId, st)
  ELSE IF line.type = "AgentMessageDelta" THEN CodexAgentMessageDelta(agentId, st)
  ELSE IF line.type = "UserMessage" THEN CodexUserMessage(agentId, st)
  ELSE st


\* ------------------------------------------------------------ cursorParser
\* path.basename
RECURSIVE Basename(_)
Basename(f) ==
  IF \E i \in 1..Len(f) : SubSeq(f, i, i) = "/"
  THEN Basename(SubSeq(f, (CHOOSE i \in 1..Len(f) : SubSeq(f, i, i) = "/") + 1, Len(f)))
  ELSE f

formatCursorStatus(event, record) ==
  IF event = "beforeShellExecution" THEN "Running: " \o Truncate(record.arg)
  ELSE IF event = "beforeReadFile" THEN "Reading " \o Basename(record.arg)
  ELSE IF event = "afterFileEdit" THEN "Editing " \o Basename(record.arg)
  ELSE IF event = "beforeMCPExecution"
       THEN "MCP: " \o (IF record.arg = "" THEN "tool" ELSE record.arg)
  ELSE "Using " \o event

\* generateToolId: cursor-<Date.now()>-<random>; n numbers the calls
generateToolId(n) == GenId("cursor-", n)

CursorBeforeSubmitPrompt(agentId, st) ==
  LET s1 == cancelWaitingTimer(agentId, st)
      s2 == clearAgentActivity(agentId, s1)
      s3 == [s2 EXCEPT !.agent.hadToolsInTurn = FALSE]
  IN Post(s3, AgentStatus(agentId, "active"))

\* turn end that forgets to clear activeToolNames
CursorTurnEnd_KeepsNames(agentId, st) ==
  LET s1 == cancelWaitingTimer(agentId, st)
      s2 == cancelPermissionTimer(agentId, s1)
      s3 == IF s2.agent.activeToolIds # {}
            THEN Post([s2 EXCEPT !.agent.activeToolIds = {},
                                 !.agent.activeToolStatuses = <<>>,
                                 !.agent.activeSubagentToolIds = <<>>,
                                 !.agent.activeSubagentToolNames = <<>>],
                      AgentToolsClear(agentId))
            ELSE s2
      s4 == [s3 EXCEPT !.agent.isWaiting = TRUE,
                       !.agent.permissionSent = FALSE,
                       !.agent.hadToolsInTurn = FALSE]
  IN Post(s4, AgentStatus(agentId, "waiting"))

\* turn end that clears the permission timers of every agent
CursorTurnEnd_CancelsAll(agentId, st) ==
  LET s1 == cancelWaitingTimer(agentId, st)
      s2 == [s1 EXCEPT !.permissionTimers = {}]
      s3 == IF s2.agent.activeToolIds # {}
            THEN Post([s2 EXCEPT !.agent.activeToolIds = {},
                                 !.agent.activeToolStatuses = <<>>,
                                 !.agent.activeToolNames = <<>>,
                                 !.agent.activeSubagentToolIds = <<>>,
                                 !.agent.activeSubagentToolNames = <<>>],
                      AgentToolsClear(agentId))
            ELSE s2
      s4 == [s3 EXCEPT !.agent.isWaiting = TRUE,
                       !.agent.permissionSent = FALSE,
                       !.agent.hadToolsInTurn = FALSE]
  IN Post(s4, AgentStatus(agentId, "waiting"))

CursorTurnEnd(agentId, st) ==
  LET s1 == cancelWaitingTimer(agentId, st)
      s2 == cancelPermissionTimer(agentId, s1)
      s3 == IF s2.agent.activeToolIds # {}
            THEN Post([s2 EXCEPT !.agent.activeToolIds = {},
                                 !.agent.activeToolStatuses = <<>>,
                                 !.agent.activeToolNames = <<>>,
                                 !.agent.activeSubagentToolIds = <<>>,
                                 !.agent.activeSubagentToolNames = <<>>],
                      AgentToolsClear(agentId))
            ELSE s2
      s4 == [s3 EXCEPT !.agent.isWaiting = TRUE,
                       !.agent.permissionSent = FALSE,
                       !.agent.hadToolsInTurn = FALSE]
  IN Post(s4, AgentStatus(agentId, "waiting"))

CursorToolName(event) ==
  IF event \in {"beforeShellExecution", "afterShellExecution"} THEN "Bash"
  ELSE IF event \in {"beforeReadFile", "afterFileEdit"} THEN "Read"
  ELSE "MCP"

\* a tool start that announces the tool but not the change of status
CursorToolStart_NoStatus(agentId, event, record, st) ==
  LET toolId == generateToolId(st.gen + 1)
      status == formatCursorStatus(event, record)
      toolName == CursorToolName(event)
      s1 == [st EXCEPT !.gen = @ + 1,
                       !.agent.activeToolIds = @ \cup {toolId},
                       !.agent.activeToolStatuses = MapSet(@, toolId, status),
                       !.agent.activeToolNames = MapSet(@, toolId, toolName),
                       !.agent.hadToolsInTurn = TRUE,
                       !.agent.isWaiting = FALSE]
      s2 == s1
      s3 == Post(s2, AgentToolStart(agentId, toolId, status))
  IN startPermissionTimer(agentId, s3)

CursorToolStart(agentId, event, record, st) ==
  LET toolId == generateToolId(st.gen + 1)
      status == formatCursorStatus(event, record)
      toolName == CursorToolName(event)
      s1 == [st EXCEPT !.gen = @ + 1,
                       !.agent.activeToolIds = @ \cup {toolId},
                       !.agent.activeToolStatuses = MapSet(@, toolId, status),
                       !.agent.activeToolNames = MapSet(@, toolId, toolName),
                       !.agent.hadToolsInTurn = TRUE,
                       !.agent.isWaiting = FALSE]
      s2 == Post(s1, AgentStatus(agentId, "active"))
      s3 == Post(s2, AgentToolStart(agentId, toolId, status))
  IN startPermissionTimer(agentId, s3)

\* the last entry of activeToolNames of the given kind
MatchedTool_Newest(names, matchType) ==
  LET hits == SelectSeq(names, LAMBDA e : e[2] = matchType)
  IN IF hits = <<>> THEN "" ELSE hits[Len(hits)][1]

\* the first entry of activeToolNames, in insertion order, of the given kind
MatchedTool(names, matchType) ==
  LET hits == SelectSeq(names, LAMBDA e : e[2] = matchType)
  IN IF hits = <<>> THEN "" ELSE hits[1][1]

\* afterFileEdit with no open Read tool generates a tool id of its own
CursorNeedsId(agent, event) ==
  \/ event \in {"beforeShellExecution", "beforeReadFile", "beforeMCPExecution"}
  \/ event = "afterFileEdit" /\ MatchedTool(agent.activeToolNames, "Read") = ""

\* tool end that leaves the ended tool's entry in activeToolStatuses
CursorToolEnd_KeepsStatus(agentId, event, record, st) ==
  LET matchType == CursorToolName(event)
      matchedToolId == MatchedTool(st.agent.activeToolNames, matchType)
      s1 == IF matchedToolId # ""
            THEN [st EXCEPT !.agent.activeToolIds = @ \ {matchedToolId},
                            !.agent.activeToolNames = MapDelete(@, matchedToolId),
                            !.sched = Append(@, [id |-> agentId, toolId |-> matchedToolId])]
            ELSE IF event = "afterFileEdit"
            THEN LET toolId == generateToolId(st.gen + 1)
                     status == formatCursorStatus(event, record)
                 IN Post([st EXCEPT !.gen = @ + 1,
                                    !.agent.hadToolsInTurn = TRUE,
                                    !.sched = Append(@, [id |-> agentId, toolId |-> toolId])],
                         AgentToolStart(agentId, toolId, status))
            ELSE st
  IN IF s1.agent.activeToolIds = {}
     THEN [s1 EXCEPT !.agent.hadToolsInTurn = FALSE]
     ELSE s1

CursorToolEnd(agentId, event, record, st) ==
  LET matchType == CursorToolName(event)
      matchedToolId == MatchedTool(st.agent.activeToolNames, matchType)
      s1 == IF matchedToolId # ""
            THEN [st EXCEPT !.agent.activeToolIds = @ \ {matchedToolId},
                            !.agent.activeToolStatuses = MapDelete(@, matchedToolId),
                            !.agent.activeToolNames = MapDelete(@, matchedToolId),
                            !.sched = Append(@, [id |-> agentId, toolId |-> matchedToolId])]
            ELSE IF event = "afterFileEdit"
            THEN LET toolId == generateToolId(st.gen + 1)
                     status == formatCursorStatus(event, record)
                 IN Post([st EXCEPT !.gen = @ + 1,
                                    !.agent.hadToolsInTurn = TRUE,
                                    !.sched = Append(@, [id |-> agentId, toolId |-> toolId])],
                         AgentToolStart(agentId, toolId, status))
            ELSE st
  IN IF s1.agent.activeToolIds = {}
     THEN [s1 EXCEPT !.agent.hadToolsInTurn = FALSE]
     ELSE s1

\* a parser that takes an unreadable or typeless line for the end of the turn
processCursorLine_NoGuard(agentId, line, st) ==
  IF line.type \in {Malformed, ""} THEN CursorTurnEnd(agentId, st)
  ELSE IF line.type = "beforeSubmitPrompt" THEN CursorBeforeSubmitPrompt(agentId, st)
  ELSE IF line.type \in {"afterAgentResponse", "stop"} THEN CursorTurnEnd(agentId, st)
  ELSE IF line.type \in {"beforeShellExecution", "beforeReadFile", "beforeMCPExecution"}
       THEN CursorToolStart(agentId, line.type, line, st)
  ELSE IF line.type \in {"afterShellExecution", "afterFileEdit", "afterMCPExecution"}
       THEN CursorToolEnd(agentId, line.type, line, st)
  ELSE st

processCursorLine(agentId, line, st) ==
  IF line.type = Malformed THEN st
  ELSE IF line.type = "" THEN st
  ELSE IF line.type = "beforeSubmitPrompt" THEN CursorBeforeSubmitPrompt(agentId, st)
  ELSE IF line.type \in {"afterAgentResponse", "stop"} THEN CursorTurnEnd(agentId, st)
  ELSE IF line.type \in {"beforeShellExecution", "beforeReadFile", "beforeMCPExecution"}
       THEN CursorToolStart(agentId, line.type, line, st)
  ELSE IF line.type \in {"afterShellExecution", "afterFileEdit", "afterMCPExecution"}
       THEN CursorToolEnd(agentId, line.type, line, st)
  ELSE st


\* =================================================================== state
VARIABLES
  \* ArcadiaViewProvider fields
  agents,             \* Map<number, AgentState>: id -> AgentState
  agentOrder,         \* insertion order of the agents Map
  nextAgentId,
  nextTerminalIndex,
  activeAgentId,
  knownJsonlFiles,
  fileWatchers,       \* ids with an entry in fileWatchers
  pollingTimers,      \* ids with an entry in pollingTimers
  waitingTimers,      \* ids with an armed idle timer
  permissionTimers,   \* ids with an armed permission timer
  jsonlPollTimers,    \* id -> handle of the transcript-appearance poll
  projectScanTimer,   \* NoPath (null) or the directory the scan timer lists
  persisted,          \* workspaceState[WORKSPACE_KEY_AGENTS]
  \* the JavaScript runtime: callbacks that are scheduled
  livePolls,          \* setInterval appearance polls not yet cleared
  pendingDone,        \* setTimeout agentToolDone callbacks, in firing order
  genCount,           \* tool ids generated so far
  nextHandle,         \* timer handles handed out so far
  \* the environment
  cwd,                \* workspace folder, NoPath when there is none
  terminals,          \* vscode.window.terminals, by name
  files,              \* paths that exist
  fileData,           \* path -> bytes of the file, for the paths that exist
  readyCount,         \* webviewReady messages received
  \* observation
  emitted,            \* messages posted by the last step
  last,               \* the last step: [op, id, line]
  logging,            \* whether the trace is recorded (SpecLog)
  log,                \* inputs and posted messages, in order
  staleIdle,          \* ids whose armed idle timer has seen a later event line
  toolSinceTurn,      \* ids with a tool-start line since the last turn boundary
  restoredIds,        \* ids whose AgentState was created by restoreAgents
  delivered           \* id -> the lines readNewLines handed to the parser, in order

vars == <<agents, agentOrder, nextAgentId, nextTerminalIndex, activeAgentId,
          knownJsonlFiles, fileWatchers, pollingTimers, waitingTimers,
          permissionTimers, jsonlPollTimers, projectScanTimer, persisted,
          livePolls, pendingDone, genCount, nextHandle, cwd, terminals, files,
          fileData, readyCount, emitted, last, logging, log, staleIdle,
          toolSinceTurn, restoredIds, delivered>>

registryVars == <<agents, agentOrder, nextAgentId, nextTerminalIndex,
                  activeAgentId, knownJsonlFiles, fileWatchers, pollingTimers,
                  jsonlPollTimers, projectScanTimer, persisted, livePolls,
                  nextHandle>>
envVars == <<cwd, terminals, files, fileData, readyCount>>

\* fs.statSync(path).size
fileSize == [f \in DOMAIN fileData |-> Len(fileData[f])]

NoLine == Line("", "", "")
Step(op, id, line) == [op |-> op, id |-> id, line |-> line]

Ids == DOMAIN agents

\* ------------------------------------------------------------- trace (log)
In(id, line) ==
  [k |-> "in", type |-> line.type, id |-> id, toolId |-> line.id, status |-> line.arg]
Fired(id, timer) ==
  [k |-> "timer", type |-> timer, id |-> id, toolId |-> "", status |-> ""]
Scanned(id) ==
  [k |-> "scan", type |-> "scan", id |-> id, toolId |-> "", status |-> ""]
Out(ev) ==
  [k |-> "out", type |-> ev.type, id |-> ev.id, toolId |-> ev.toolId, status |-> ev.status]
OutAll(evs) == [i \in 1..Len(evs) |-> Out(evs[i])]
Inputs(l) == SelectSeq(l, LAMBDA e : e.k \in {"in", "timer"})
Stimuli(l) == SelectSeq(l, LAMBDA e : e.k # "out")
Outputs(l) == SelectSeq(l, LAMBDA e : e.k = "out")
TraceRoom == ~logging \/ Len(Inputs(log)) < MaxTrace

\* ------------------------------------------------------------------- Init
Init ==
  /\ agents = <<>>
  /\ agentOrder = <<>>
  /\ nextAgentId = 1
  /\ nextTerminalIndex = 1
  /\ activeAgentId = NoAgent
  /\ knownJsonlFiles = {}
  /\ fileWatchers = {}
  /\ pollingTimers = {}
  /\ waitingTimers = {}
  /\ permissionTimers = {}
  /\ jsonlPollTimers = <<>>
  /\ projectScanTimer = NoPath
  /\ persisted = <<>>
  /\ livePolls = {}
  /\ pendingDone = <<>>
  /\ genCount = 0
  /\ nextHandle = 1
  /\ cwd \in {NoPath, Cwd}
  /\ terminals = {}
  /\ files = {}
  /\ fileData = [f \in files |-> ""]
  /\ readyCount = 0
  /\ emitted = <<>>
  /\ last = Step("init", NoAgent, NoLine)
  /\ logging \in BOOLEAN
  /\ log = <<>>
  /\ staleIdle = {}
  /\ toolSinceTurn = {}
  /\ restoredIds = {}
  /\ delivered = <<>>

\* ------------------------------------------------------------ agentManager
\* persistAgents: the snapshot of the agents Map, in its iteration order
\* a snapshot that leaves the transcript path out
Snapshot_DropsPath(ags, order) ==
  [i \in 1..Len(order) |->
     LET a == ags[order[i]]
     IN [id |-> a.id, provider |-> a.provider,
         terminalName |-> IF a.terminalRef # NoTerminal THEN a.terminalRef
                          ELSE a.provider,
         jsonlFile |-> "", projectDir |-> a.projectDir]]

Snapshot(ags, order) ==
  [i \in 1..Len(order) |->
     LET a == ags[order[i]]
     IN [id |-> a.id, provider |-> a.provider,
         terminalName |-> IF a.terminalRef # NoTerminal THEN a.terminalRef
                          ELSE a.provider,
         jsonlFile |-> a.jsonlFile, projectDir |-> a.projectDir]]

\* agents.set(id, agent) and agents.delete(id) on the pair (function, order)
AgentsSet(ags, id, agent) ==
  [i \in DOMAIN ags \cup {id} |-> IF i = id THEN agent ELSE ags[i]]
OrderSet(order, id) ==
  IF \E i \in 1..Len(order) : order[i] = id THEN order ELSE Append(order, id)
MapRemove(f, id) == [i \in DOMAIN f \ {id} |-> f[i]]

\* An appearance poll closes over the AgentState object it was created with;
\* cur tells whether that object is still the one the agents Map holds.  The
\* polls of id lose it when agents.set(id, ...) or agents.delete(id) runs.
Orphaned(polls, id) ==
  {IF q.id = id THEN [q EXCEPT !.cur = FALSE] ELSE q : q \in polls}

\* text.split('\n'): the pieces of text between line terminators, the last one
\* being what follows the last terminator
RECURSIVE Split(_, _)
Split(text, cur) ==
  IF text = "" THEN <<cur>>
  ELSE IF SubSeq(text, 1, 1) = NL
       THEN <<cur>> \o Split(SubSeq(text, 2, Len(text)), "")
       ELSE Split(SubSeq(text, 2, Len(text)), cur \o SubSeq(text, 1, 1))

\* a tailer that forgets the held partial line
ReadPieces_DropsHeld(agent, data) ==
  LET bytes == data[agent.jsonlFile]
      from == IF Len(bytes) < agent.fileOffset THEN 0 ELSE agent.fileOffset
  IN Split(SubSeq(bytes, from + 1, Len(bytes)), "")

\* one read of the tailer: a file shorter than fileOffset is a reset (held
\* partial line cleared, reading restarts at offset 0); the held partial line
\* is put in front of the bytes beyond fileOffset, the complete lines are
\* handed on and what follows the last terminator is held
ReadPieces(agent, data) ==
  LET bytes == data[agent.jsonlFile]
      reset == Len(bytes) < agent.fileOffset
      from == IF reset THEN 0 ELSE agent.fileOffset
      held == IF reset THEN "" ELSE agent.lineBuffer
  IN Split(held \o SubSeq(bytes, from + 1, Len(bytes)), "")

\* the lines one readNewLines hands to the parser
NewLines(agent, data) ==
  IF agent.jsonlFile \notin DOMAIN data \/ Len(data[agent.jsonlFile]) = agent.fileOffset
  THEN <<>>
  ELSE SubSeq(ReadPieces(agent, data), 1, Len(ReadPieces(agent, data)) - 1)

\* fileWatcher.readNewLines: hands the complete lines after fileOffset to the
\* parser, holds the unterminated rest in lineBuffer and moves fileOffset to
\* the end of the file; an unchanged or unreadable file changes nothing
readNewLines(agentId, r, data) ==
  IF agentId \notin DOMAIN r.agents THEN r
  ELSE IF r.agents[agentId].jsonlFile \notin DOMAIN data THEN r
  ELSE IF Len(data[r.agents[agentId].jsonlFile]) = r.agents[agentId].fileOffset THEN r
  ELSE LET pieces == ReadPieces(r.agents[agentId], data)
       IN [r EXCEPT !.agents[agentId].fileOffset = Len(data[r.agents[agentId].jsonlFile]),
                    !.agents[agentId].lineBuffer = pieces[Len(pieces)]]

\* the history of the lines handed to the parser, after one more read
Handed(d, agentId, r, data) ==
  IF agentId \notin DOMAIN r.agents \/ NewLines(r.agents[agentId], data) = <<>> THEN d
  ELSE [i \in DOMAIN d \cup {agentId} |->
          (IF i \in DOMAIN d THEN d[i] ELSE <<>>)
          \o (IF i = agentId THEN NewLines(r.agents[agentId], data) ELSE <<>>)]

\* the byte range one readNewLines covers: from fileOffset to the end of the
\* file, as the pair (id, arg) of a line of type "<read>"
ReadRange(agent, sizes) ==
  IF agent.jsonlFile \notin DOMAIN sizes \/ sizes[agent.jsonlFile] = agent.fileOffset
  THEN Line("", "", "")
  ELSE Line("<read>", ToString(agent.fileOffset), ToString(sizes[agent.jsonlFile]))

\* fileWatcher.startFileWatching: registers the watcher and the poll of id
startFileWatching(agentId, r) ==
  [r EXCEPT !.fileWatchers = @ \cup {agentId},
            !.pollingTimers = @ \cup {agentId}]

\* fileWatcher.ensureProjectScan: one scan timer, started on first need
ensureProjectScan(projectDir, r) ==
  IF r.projectScanTimer # NoPath THEN r
  ELSE [r EXCEPT !.projectScanTimer = projectDir]

\* the registry as one value, for the operators that rewrite several maps
Registry ==
  [agents |-> agents, agentOrder |-> agentOrder, nextAgentId |-> nextAgentId,
   nextTerminalIndex |-> nextTerminalIndex, activeAgentId |-> activeAgentId,
   knownJsonlFiles |-> knownJsonlFiles, fileWatchers |-> fileWatchers,
   pollingTimers |-> pollingTimers, waitingTimers |-> waitingTimers,
   permissionTimers |-> permissionTimers, jsonlPollTimers |-> jsonlPollTimers,
   projectScanTimer |-> projectScanTimer, persisted |-> persisted,
   livePolls |-> livePolls, nextHandle |-> nextHandle]

SetRegistry(r) ==
  /\ agents' = r.agents
  /\ agentOrder' = r.agentOrder
  /\ nextAgentId' = r.nextAgentId
  /\ nextTerminalIndex' = r.nextTerminalIndex
  /\ activeAgentId' = r.activeAgentId
  /\ knownJsonlFiles' = r.knownJsonlFiles
  /\ fileWatchers' = r.fileWatchers
  /\ pollingTimers' = r.pollingTimers
  /\ waitingTimers' = r.waitingTimers
  /\ permissionTimers' = r.permissionTimers
  /\ jsonlPollTimers' = r.jsonlPollTimers
  /\ projectScanTimer' = r.projectScanTimer
  /\ persisted' = r.persisted
  /\ livePolls' = r.livePolls
  /\ nextHandle' = r.nextHandle

Observe(op, id, line, evs) ==
  /\ emitted' = evs
  /\ last' = Step(op, id, line)

removeAgent_NoGuard(agentId, r) ==
  LET r1 == IF agentId \in DOMAIN r.jsonlPollTimers
            THEN [r EXCEPT !.livePolls =
                              {q \in @ : q.h # r.jsonlPollTimers[agentId]},
                           !.jsonlPollTimers = MapRemove(@, agentId)]
            ELSE r
      r2 == [r1 EXCEPT !.fileWatchers = @ \ {agentId},
                       !.pollingTimers = @ \ {agentId},
                       !.waitingTimers = @ \ {agentId},
                       !.permissionTimers = @ \ {agentId},
                       !.agents = MapRemove(@, agentId),
                       !.livePolls = Orphaned(@, agentId),
                       !.agentOrder = SelectSeq(@, LAMBDA i : i # agentId)]
  IN [r2 EXCEPT !.persisted = Snapshot(r2.agents, r2.agentOrder)]

removeAgent(agentId, r) ==
  IF agentId \notin DOMAIN r.agents THEN r
  ELSE
    LET \* clearInterval(jsonlPollTimers.get(agentId)); jsonlPollTimers.delete
        r1 == IF agentId \in DOMAIN r.jsonlPollTimers
              THEN [r EXCEPT !.livePolls =
                                {q \in @ : q.h # r.jsonlPollTimers[agentId]},
                             !.jsonlPollTimers = MapRemove(@, agentId)]
              ELSE r
        \* fileWatchers.get(agentId)?.close(); clearInterval(pollingTimers...)
        r2 == [r1 EXCEPT !.fileWatchers = @ \ {agentId},
                         !.pollingTimers = @ \ {agentId}]
        \* cancelWaitingTimer, cancelPermissionTimer
        r3 == [r2 EXCEPT !.waitingTimers = @ \ {agentId},
                         !.permissionTimers = @ \ {agentId}]
        r4 == [r3 EXCEPT !.agents = MapRemove(@, agentId),
                         !.livePolls = Orphaned(@, agentId),
                         !.agentOrder = SelectSeq(@, LAMBDA i : i # agentId)]
    IN [r4 EXCEPT !.persisted = Snapshot(r4.agents, r4.agentOrder)]


terminalName(p, idx) == terminalNamePrefix(p) \o " #" \o ToString(idx)

\* launchNewTerminal: "Pre-register expected JSONL file so project scan won't
\* treat it as a /clear file", the first statement after the provider's result
PreRegister_Skipped(jsonlFile, known) == known
PreRegister_Always(jsonlFile, known) == known \cup {jsonlFile}
PreRegister(jsonlFile, known) ==
  IF jsonlFile # NoPath THEN known \cup {jsonlFile} ELSE known

\* a launch that draws the agent id before it looks at the working directory
Launch_FailTakesId(p) ==
  /\ nextTerminalIndex <= MaxLaunches
  /\ nextAgentId <= MaxLaunches
  /\ LET idx == nextTerminalIndex
         terminal == IF needsTerminal(p) THEN terminalName(p, idx) ELSE NoTerminal
     IN /\ terminals' = IF needsTerminal(p) THEN terminals \cup {terminal} ELSE terminals
        /\ IF cwd = NoPath
           THEN /\ SetRegistry([Registry EXCEPT !.nextTerminalIndex = idx + 1,
                                                !.nextAgentId = @ + 1])
                /\ Observe("launch", NoAgent, NoLine, <<>>)
           ELSE LET result == launchTerminal(p, cwd, nextAgentId)
                    id == nextAgentId
                    agent == NewAgent(id, p, terminal, result.projectDir, result.jsonlFile)
                    r1 == [Registry EXCEPT
                             !.nextTerminalIndex = idx + 1,
                             !.knownJsonlFiles = PreRegister(result.jsonlFile, @),
                             !.nextAgentId = id + 1,
                             !.agents = AgentsSet(@, id, agent),
                             !.agentOrder = OrderSet(@, id),
                             !.livePolls = Orphaned(@, id),
                             !.activeAgentId = id]
                    r2 == [r1 EXCEPT !.persisted = Snapshot(r1.agents, r1.agentOrder)]
                    r3 == IF usesProjectScan(p)
                          THEN ensureProjectScan(result.projectDir, r2) ELSE r2
                    r4 == IF result.jsonlFile # NoPath
                          THEN [r3 EXCEPT
                                  !.livePolls = @ \cup
                                     {[h |-> r3.nextHandle, id |-> id, kind |-> "launch",
                                       path |-> result.jsonlFile, cur |-> TRUE]},
                                  !.jsonlPollTimers = AgentsSet(@, id, r3.nextHandle),
                                  !.nextHandle = @ + 1]
                          ELSE r3
                IN /\ SetRegistry(r4)
                   /\ Observe("launch", id, NoLine, <<AgentCreated(id)>>)
  /\ restoredIds' = IF cwd = NoPath THEN restoredIds ELSE restoredIds \ {nextAgentId}
  /\ UNCHANGED <<pendingDone, genCount, cwd, files, fileData, readyCount, logging, delivered, log,
                 staleIdle, toolSinceTurn>>

\* launchNewTerminal
Launch(p) ==
  /\ nextTerminalIndex <= MaxLaunches
  /\ nextAgentId <= MaxLaunches
  /\ LET idx == nextTerminalIndex
         terminal == IF needsTerminal(p) THEN terminalName(p, idx) ELSE NoTerminal
     IN /\ terminals' = IF needsTerminal(p) THEN terminals \cup {terminal} ELSE terminals
        /\ IF cwd = NoPath
           THEN /\ SetRegistry([Registry EXCEPT !.nextTerminalIndex = idx + 1])
                /\ Observe("launch", NoAgent, NoLine, <<>>)
           ELSE LET result == launchTerminal(p, cwd, nextAgentId)
                    id == nextAgentId
                    agent == NewAgent(id, p, terminal, result.projectDir, result.jsonlFile)
                    r1 == [Registry EXCEPT
                             !.nextTerminalIndex = idx + 1,
                             !.knownJsonlFiles = PreRegister(result.jsonlFile, @),
                             !.nextAgentId = id + 1,
                             !.agents = AgentsSet(@, id, agent),
                             !.agentOrder = OrderSet(@, id),
                             !.livePolls = Orphaned(@, id),
                             !.activeAgentId = id]
                    r2 == [r1 EXCEPT !.persisted = Snapshot(r1.agents, r1.agentOrder)]
                    r3 == IF usesProjectScan(p)
                          THEN ensureProjectScan(result.projectDir, r2) ELSE r2
                    r4 == IF result.jsonlFile # NoPath
                          THEN [r3 EXCEPT
                                  !.livePolls = @ \cup
                                     {[h |-> r3.nextHandle, id |-> id, kind |-> "launch",
                                       path |-> result.jsonlFile, cur |-> TRUE]},
                                  !.jsonlPollTimers = AgentsSet(@, id, r3.nextHandle),
                                  !.nextHandle = @ + 1]
                          ELSE r3
                IN /\ SetRegistry(r4)
                   /\ Observe("launch", id, NoLine, <<AgentCreated(id)>>)
  /\ restoredIds' = IF cwd = NoPath THEN restoredIds ELSE restoredIds \ {nextAgentId}
  /\ UNCHANGED <<pendingDone, genCount, cwd, files, fileData, readyCount, logging, delivered, log,
                 staleIdle, toolSinceTurn>>

\* the setInterval callback of launchNewTerminal / restoreAgents, on a tick
\* that finds the transcript
JsonlPollTick(q) ==
  /\ q \in livePolls
  /\ q.path \in files
  /\ LET r1 == [Registry EXCEPT !.livePolls = @ \ {q},
                                !.jsonlPollTimers = MapRemove(@, q.id)]
         \* restoreAgents: agent.fileOffset = stat.size, on the object of the closure
         r2 == IF q.kind = "restore" /\ q.cur
               THEN [r1 EXCEPT !.agents[q.id].fileOffset = fileSize[q.path]] ELSE r1
         r3 == startFileWatching(q.id, r2)
         \* launchNewTerminal: readNewLines(id, agents, ...)
         r4 == IF q.kind = "launch" THEN readNewLines(q.id, r3, fileData) ELSE r3
     IN /\ SetRegistry(r4)
        /\ delivered' = IF q.kind = "launch"
                        THEN Handed(delivered, q.id, r3, fileData) ELSE delivered
        /\ Observe("jsonlPoll", q.id,
                   IF q.kind = "launch" /\ q.id \in DOMAIN r3.agents
                   THEN ReadRange(r3.agents[q.id], fileSize) ELSE NoLine, <<>>)
  /\ UNCHANGED <<pendingDone, genCount, envVars, logging, restoredIds, log, staleIdle,
                 toolSinceTurn>>

\* vscode.window.onDidChangeActiveTerminal
ChangeActiveTerminal(t) ==
  /\ t \in terminals \cup {NoTerminal}
  /\ LET owners == SelectSeq(agentOrder, LAMBDA i : agents[i].terminalRef = t)
         found == t # NoTerminal /\ owners # <<>>
     IN /\ SetRegistry([Registry EXCEPT
                          !.activeAgentId = IF found THEN owners[1] ELSE NoAgent])
        /\ Observe("activeTerminal", IF found THEN owners[1] ELSE NoAgent, NoLine,
                   IF found THEN <<Ev("agentSelected", owners[1], "", "")>> ELSE <<>>)
  /\ UNCHANGED <<pendingDone, genCount, envVars, logging, delivered, restoredIds, log, staleIdle,
                 toolSinceTurn>>

\* vscode.window.onDidCloseTerminal
RECURSIVE CloseLoop(_, _, _)
CloseLoop(order, closed, acc) ==
  IF order = <<>> THEN acc
  ELSE LET id == Head(order)
           r == acc.r
       IN IF id \in DOMAIN r.agents /\ r.agents[id].terminalRef = closed
          THEN LET r1 == IF r.activeAgentId = id
                         THEN [r EXCEPT !.activeAgentId = NoAgent] ELSE r
               IN CloseLoop(Tail(order), closed,
                            [r |-> removeAgent(id, r1),
                             out |-> Append(acc.out, AgentClosed(id))])
          ELSE CloseLoop(Tail(order), closed, acc)

CloseTerminal(t) ==
  /\ t \in terminals
  /\ terminals' = terminals \ {t}
  /\ LET res == CloseLoop(agentOrder, t, [r |-> Registry, out |-> <<>>])
     IN /\ SetRegistry(res.r)
        /\ Observe("closeTerminal", NoAgent, NoLine, res.out)
        /\ staleIdle' = staleIdle \cap DOMAIN res.r.agents
        /\ toolSinceTurn' = toolSinceTurn \cap DOMAIN res.r.agents
        /\ restoredIds' = restoredIds \cap DOMAIN res.r.agents
  /\ UNCHANGED <<pendingDone, genCount, cwd, files, fileData, readyCount, logging, delivered, log>>


\* p.terminalName.match(/#(\d+)$/): the number after the last '#', 0 for no match
Digits == <<"0", "1", "2", "3", "4", "5", "6", "7", "8", "9">>
IsDigit(c) == \E d \in 1..10 : Digits[d] = c
DigitVal(c) == (CHOOSE d \in 1..10 : Digits[d] = c) - 1
RECURSIVE ParseInt(_, _)
ParseInt(str, acc) ==
  IF str = "" THEN acc
  ELSE ParseInt(SubSeq(str, 2, Len(str)), acc * 10 + DigitVal(SubSeq(str, 1, 1)))
TerminalIndex(name) ==
  LET hashes == {i \in 1..Len(name) : SubSeq(name, i, i) = "#"}
      tails == {i \in hashes :
                  /\ i < Len(name)
                  /\ \A j \in (i + 1)..Len(name) : IsDigit(SubSeq(name, j, j))}
  IN IF tails = {} THEN 0
     ELSE LET i == CHOOSE x \in tails : \A y \in tails : x <= y
          IN ParseInt(SubSeq(name, i + 1, Len(name)), 0)

Max(a, b) == IF a >= b THEN a ELSE b

\* restoreAgents: the loop over the persisted entries.  getProvider throws on
\* an id that is not registered; the throw leaves the loop and the function.
RECURSIVE RestoreLoop(_, _)
RestoreLoop(ps, acc) ==
  IF ps = <<>> THEN acc
  ELSE
    LET p == Head(ps)
        r == acc.r
        providerId == IF p.provider = "" THEN PROVIDER_CLAUDE ELSE p.provider
        found == p.terminalName \in acc.liveTerminals
    IN IF providerId \notin PROVIDER_IDS
       THEN [acc EXCEPT !.threw = TRUE]
       ELSE IF needsTerminal(providerId) /\ ~found
       THEN RestoreLoop(Tail(ps), acc)
       ELSE
         LET terminal == IF needsTerminal(providerId) THEN p.terminalName ELSE NoTerminal
             agent == NewAgent(p.id, providerId, terminal, p.projectDir, p.jsonlFile)
             r1 == [r EXCEPT !.agents = AgentsSet(@, p.id, agent),
                             !.agentOrder = OrderSet(@, p.id),
                             !.livePolls = Orphaned(@, p.id),
                             !.knownJsonlFiles = @ \cup {p.jsonlFile}]
             r2 == IF p.jsonlFile \in DOMAIN acc.files
                   THEN startFileWatching(p.id,
                          [r1 EXCEPT !.agents[p.id].fileOffset = acc.files[p.jsonlFile]])
                   ELSE [r1 EXCEPT
                           !.livePolls = @ \cup
                              {[h |-> r1.nextHandle, id |-> p.id, kind |-> "restore",
                                path |-> p.jsonlFile, cur |-> TRUE]},
                           !.jsonlPollTimers = AgentsSet(@, p.id, r1.nextHandle),
                           !.nextHandle = @ + 1]
         IN RestoreLoop(Tail(ps),
                        [acc EXCEPT !.r = r2,
                                    !.maxId = Max(@, p.id),
                                    !.maxIdx = Max(@, TerminalIndex(p.terminalName)),
                                    !.restoredProjectDir = p.projectDir,
                                    !.restored = @ \cup {p.id}])

\* the locals of restoreAgents before its loop
RestoreAcc(r, liveTerminals, existing) ==
  [r |-> r, maxId |-> 0, maxIdx |-> 0, restoredProjectDir |-> NoPath,
   liveTerminals |-> liveTerminals, files |-> existing, threw |-> FALSE,
   restored |-> {}]

\* whether restoreAgents leaves by the exception of getProvider
restoreThrows(r, liveTerminals, existing) ==
  /\ r.persisted # <<>>
  /\ RestoreLoop(r.persisted, RestoreAcc(r, liveTerminals, existing)).threw

\* a restore that does not write the snapshot again after its loop
restoreAgents_NoRepersist(r, liveTerminals, existing) ==
  IF r.persisted = <<>> THEN r
  ELSE
    LET res == RestoreLoop(r.persisted, RestoreAcc(r, liveTerminals, existing))
        r1 == [res.r EXCEPT
                 !.nextAgentId = IF res.maxId >= @ THEN res.maxId + 1 ELSE @,
                 !.nextTerminalIndex = IF res.maxIdx >= @ THEN res.maxIdx + 1 ELSE @]
    IN IF res.threw THEN res.r
       ELSE IF res.restoredProjectDir # NoPath
       THEN ensureProjectScan(res.restoredProjectDir, r1)
       ELSE r1

restoreAgents(r, liveTerminals, existing) ==
  IF r.persisted = <<>> THEN r
  ELSE
    LET res == RestoreLoop(r.persisted, RestoreAcc(r, liveTerminals, existing))
        r1 == [res.r EXCEPT
                 !.nextAgentId = IF res.maxId >= @ THEN res.maxId + 1 ELSE @,
                 !.nextTerminalIndex = IF res.maxIdx >= @ THEN res.maxIdx + 1 ELSE @]
        r2 == [r1 EXCEPT !.persisted = Snapshot(r1.agents, r1.agentOrder)]
    IN IF res.threw THEN res.r
       ELSE IF res.restoredProjectDir # NoPath
       THEN ensureProjectScan(res.restoredProjectDir, r2)
       ELSE r2

\* the ids restoreAgents creates a new AgentState for
RestoredIds(ps, liveTerminals) ==
  RestoreLoop(ps, RestoreAcc(Registry, liveTerminals, <<>>)).restored

\* sendCurrentAgentStatuses
RECURSIVE CurrentStatuses(_, _)
CurrentStatuses(order, ags) ==
  IF order = <<>> THEN <<>>
  ELSE LET id == Head(order)
           a == ags[id]
           tools == [i \in 1..Len(a.activeToolStatuses) |->
                       AgentToolStart(id, a.activeToolStatuses[i][1],
                                      a.activeToolStatuses[i][2])]
           waiting == IF a.isWaiting THEN <<AgentStatus(id, "waiting")>> ELSE <<>>
       IN tools \o waiting \o CurrentStatuses(Tail(order), ags)

\* sendExistingAgents
sendExistingAgents(r) == <<ExistingAgents>> \o CurrentStatuses(r.agentOrder, r.agents)

\* getProjectDirPath: the Claude provider's project directory, NoPath for null
getProjectDirPath == IF cwd = NoPath THEN NoPath ELSE claudeProjectDir(cwd)

\* the webviewReady message; an exception of restoreAgents ends the handler
WebviewReady ==
  /\ readyCount < MaxReady
  /\ readyCount' = readyCount + 1
  /\ LET threw == restoreThrows(Registry, terminals, fileSize)
         r1 == restoreAgents(Registry, terminals, fileSize)
         r2 == IF ~threw /\ getProjectDirPath # NoPath
               THEN ensureProjectScan(getProjectDirPath, r1) ELSE r1
     IN /\ SetRegistry(r2)
        /\ Observe(IF threw THEN "webviewReadyThrew" ELSE "webviewReady",
                   NoAgent, NoLine,
                   IF threw THEN <<>> ELSE sendExistingAgents(r2))
        \* a restored agent is a new AgentState that has seen no line
        /\ staleIdle' = staleIdle
        /\ toolSinceTurn' = toolSinceTurn \ RestoredIds(persisted, terminals)
        /\ restoredIds' = restoredIds \cup RestoredIds(persisted, terminals)
  /\ UNCHANGED <<pendingDone, genCount, cwd, terminals, files, fileData, logging, delivered, log>>


\* path.dirname
Dirname(f) ==
  LET slashes == {i \in 1..Len(f) : SubSeq(f, i, i) = "/"}
  IN IF slashes = {} THEN "."
     ELSE SubSeq(f, 1, (CHOOSE i \in slashes : \A j \in slashes : j <= i) - 1)

\* a transcript a CLI writes into a scanned directory under a name of its own
SessionFile(dir, n) == dir \o "/r" \o ToString(n) \o ".jsonl"

\* the paths the running CLIs may create: the transcript an agent was launched
\* for, and session files of their own naming inside the scanned directory
CreatablePaths ==
  ({agents[i].jsonlFile : i \in Ids} \ {NoPath})
  \cup {SessionFile(agents[i].projectDir, n) :
          i \in {j \in Ids : agents[j].projectDir = projectScanTimer},
          n \in 1..MaxSessionFiles}

\* a CLI creates its transcript file
FileAppears(f) ==
  /\ f \in CreatablePaths \ files
  /\ files' = files \cup {f}
  /\ fileData' = [g \in files \cup {f} |-> IF g = f THEN "" ELSE fileData[g]]
  /\ Observe("fileAppears", NoAgent, NoLine, <<>>)
  /\ UNCHANGED <<registryVars, waitingTimers, permissionTimers, pendingDone, genCount,
                 cwd, terminals, readyCount, logging, delivered, restoredIds, log, staleIdle,
                 toolSinceTurn>>

\* fileWatcher: the focused agent is re-pointed at a transcript the scan found
reassignAgentToFile(agentId, newFilePath, acc) ==
  IF agentId \notin DOMAIN acc.r.agents THEN acc
  ELSE
    LET r == acc.r
        r1 == [r EXCEPT !.fileWatchers = @ \ {agentId},
                        !.pollingTimers = @ \ {agentId}]
        st == clearAgentActivity(agentId,
                cancelPermissionTimer(agentId,
                  cancelWaitingTimer(agentId,
                    Ctx(r1.agents[agentId], r1.waitingTimers, r1.permissionTimers, 0))))
        r2 == [r1 EXCEPT !.agents[agentId] = [st.agent EXCEPT !.jsonlFile = newFilePath,
                                                                !.fileOffset = 0,
                                                                !.lineBuffer = ""],
                         !.waitingTimers = st.waitingTimers,
                         !.permissionTimers = st.permissionTimers]
        r3 == [r2 EXCEPT !.persisted = Snapshot(r2.agents, r2.agentOrder)]
    IN [r |-> startFileWatching(agentId, r3), out |-> acc.out \o st.out]

\* fileWatcher: one tick of the directory scan
RECURSIVE ScanLoop(_, _)
ScanLoop(newFiles, acc) ==
  IF newFiles = {} THEN acc
  ELSE LET f == CHOOSE x \in newFiles : TRUE
           acc1 == [acc EXCEPT !.r.knownJsonlFiles = @ \cup {f}]
       IN ScanLoop(newFiles \ {f},
                   IF acc1.r.activeAgentId # NoAgent
                   THEN reassignAgentToFile(acc1.r.activeAgentId, f, acc1)
                   ELSE acc1)

NewFiles == {f \in files : Dirname(f) = projectScanTimer /\ f \notin knownJsonlFiles}

ScanTick ==
  /\ projectScanTimer # NoPath
  /\ NewFiles # {}
  /\ LET res == ScanLoop(NewFiles, [r |-> Registry, out |-> <<>>])
     IN /\ SetRegistry(res.r)
        /\ Observe("scan", activeAgentId, NoLine, res.out)
        /\ log' = IF logging
                  THEN log \o <<Scanned(activeAgentId)>> \o OutAll(res.out) ELSE log
        /\ staleIdle' = staleIdle \cap res.r.waitingTimers
  /\ UNCHANGED <<pendingDone, genCount, envVars, logging, delivered, restoredIds, toolSinceTurn>>

\* ------------------------------------------------------------------ inputs
LongCommand == "find . -name '*.ts' -newer build.stamp"
SomeFile == "/w/src/main.ts"

CodexLines ==
  {Line(t, "", "") : t \in {"TurnStarted", "TurnEnded", "UserMessage",
                            "AgentMessageDelta", "ApprovalRequest",
                            "TokenCount", Malformed, ""}}
  \cup {Line("ExecCommandBegin", "a1", "ls -la"),
        Line("ExecCommandBegin", "a2", LongCommand),
        Line("ExecCommandBegin", "", "")}
  \cup {Line("ExecCommandEnd", i, "") : i \in {"a1", "a2", ""}}
  \cup {Line("ExecOutputDelta", i, "") : i \in {"a1", "a2"}}

CursorLines ==
  {Line(t, "", "") : t \in {"beforeSubmitPrompt", "afterAgentResponse", "stop",
                            "afterShellExecution", "afterMCPExecution",
                            "afterShellOutput", Malformed, ""}}
  \cup {Line("beforeShellExecution", "", "ls -la"),
        Line("beforeReadFile", "", SomeFile),
        Line("beforeMCPExecution", "", ""),
        Line("afterFileEdit", "", SomeFile)}

LinesOf(provider) ==
  IF provider = PROVIDER_CODEX THEN CodexLines
  ELSE IF provider = PROVIDER_CURSOR THEN CursorLines
  ELSE {}

TurnStartTypes == {"TurnStarted", "UserMessage", "beforeSubmitPrompt"}
TurnEndTypes == {"TurnEnded", "afterAgentResponse", "stop"}
ToolStartTypes == {"ExecCommandBegin", "beforeShellExecution", "beforeReadFile",
                   "beforeMCPExecution"}
ToolEndTypes == {"ExecCommandEnd", "afterShellExecution", "afterFileEdit",
                 "afterMCPExecution"}

\* the event types either parser acts on
ActivityTypes ==
  TurnStartTypes \cup TurnEndTypes \cup ToolStartTypes \cup ToolEndTypes
  \cup {"ExecOutputDelta", "ApprovalRequest", "AgentMessageDelta"}

\* whether handling the line draws a fresh tool id
NeedsId(agent, line) ==
  IF agent.provider = PROVIDER_CODEX
  THEN line.type = "ExecCommandBegin" /\ line.id = ""
  ELSE CursorNeedsId(agent, line.type)

\* provider.processLine
processLine(agentId, line, st) ==
  IF st.agent.provider = PROVIDER_CODEX THEN processCodexLine(agentId, line, st)
  ELSE IF st.agent.provider = PROVIDER_CURSOR THEN processCursorLine(agentId, line, st)
  ELSE st

\* one completed transcript line of a watched agent is handed to its parser
ProcessLine(a, line) ==
  /\ a \in Ids
  /\ a \in pollingTimers
  /\ line \in LinesOf(agents[a].provider)
  /\ TraceRoom
  /\ NeedsId(agents[a], line) => genCount < MaxGenIds
  /\ LET st == processLine(a, line,
                           Ctx(agents[a], waitingTimers, permissionTimers, genCount))
     IN /\ Len(pendingDone) + Len(st.sched) <= MaxPending
        /\ agents' = [agents EXCEPT ![a] = st.agent]
        /\ waitingTimers' = st.waitingTimers
        /\ permissionTimers' = st.permissionTimers
        /\ pendingDone' = pendingDone \o st.sched
        /\ genCount' = st.gen
        /\ Observe("line", a, line, st.out)
        /\ log' = IF logging THEN log \o <<In(a, line)>> \o OutAll(st.out) ELSE log
        /\ staleIdle' = IF a \notin st.waitingTimers \/ st.rearmed
                        THEN staleIdle \ {a}
                        ELSE IF line.type \in ActivityTypes THEN staleIdle \cup {a}
                        ELSE staleIdle
        /\ toolSinceTurn' =
             IF line.type \in ToolStartTypes THEN toolSinceTurn \cup {a}
             ELSE IF line.type \in TurnStartTypes \cup TurnEndTypes
                  THEN toolSinceTurn \ {a}
             ELSE toolSinceTurn
  /\ UNCHANGED <<agentOrder, nextAgentId, nextTerminalIndex, activeAgentId,
                 knownJsonlFiles, fileWatchers, pollingTimers, jsonlPollTimers,
                 projectScanTimer, persisted, livePolls, nextHandle, envVars, logging, delivered,
                 restoredIds>>

\* the setTimeout callback scheduled by a tool-end line (TOOL_DONE_DELAY_MS);
\* equal delays run in the order they were scheduled
ToolDoneFires ==
  /\ pendingDone # <<>>
  /\ LET d == Head(pendingDone)
     IN /\ pendingDone' = Tail(pendingDone)
        /\ Observe("toolDone", d.id, Line("", d.toolId, ""), <<AgentToolDone(d.id, d.toolId)>>)
        /\ log' = IF logging
                  THEN log \o <<Out(AgentToolDone(d.id, d.toolId))>> ELSE log
  /\ UNCHANGED <<registryVars, waitingTimers, permissionTimers, genCount, envVars,
                 logging, delivered, restoredIds, staleIdle, toolSinceTurn>>

\* timerManager: the idle timer's callback; the agent goes to waiting as on an
\* explicit turn end
WaitingTimerBody(agentId, st) ==
  LET s1 == cancelPermissionTimer(agentId, st)
      s2 == IF s1.agent.activeToolIds # {}
            THEN Post([s1 EXCEPT !.agent.activeToolIds = {},
                                 !.agent.activeToolStatuses = <<>>,
                                 !.agent.activeToolNames = <<>>,
                                 !.agent.activeSubagentToolIds = <<>>,
                                 !.agent.activeSubagentToolNames = <<>>],
                      AgentToolsClear(agentId))
            ELSE s1
      s3 == [s2 EXCEPT !.agent.isWaiting = TRUE,
                       !.agent.permissionSent = FALSE,
                       !.agent.hadToolsInTurn = FALSE]
  IN Post(s3, AgentStatus(agentId, "waiting"))

WaitingTimerFires(a) ==
  /\ a \in waitingTimers
  /\ TraceRoom
  /\ IF a \in Ids
     THEN LET st == WaitingTimerBody(a,
                      Ctx(agents[a], waitingTimers \ {a}, permissionTimers, genCount))
          IN /\ agents' = [agents EXCEPT ![a] = st.agent]
             /\ waitingTimers' = st.waitingTimers
             /\ permissionTimers' = st.permissionTimers
             /\ Observe("waitingTimer", a, NoLine, st.out)
             /\ log' = IF logging
                       THEN log \o <<Fired(a, "waiting")>> \o OutAll(st.out) ELSE log
     ELSE /\ waitingTimers' = waitingTimers \ {a}
          /\ Observe("waitingTimer", a, NoLine, <<>>)
          /\ UNCHANGED <<agents, permissionTimers, log>>
  /\ staleIdle' = staleIdle \ {a}
  /\ toolSinceTurn' = toolSinceTurn \ {a}
  /\ UNCHANGED <<agentOrder, nextAgentId, nextTerminalIndex, activeAgentId,
                 knownJsonlFiles, fileWatchers, pollingTimers, jsonlPollTimers,
                 projectScanTimer, persisted, livePolls, nextHandle, pendingDone,
                 genCount, envVars, logging, delivered, restoredIds>>

PermissionExempt(provider) ==
  IF provider = PROVIDER_CODEX THEN CODEX_PERMISSION_EXEMPT
  ELSE CURSOR_PERMISSION_EXEMPT

\* timerManager: the permission timer's callback
PermissionTimerBody(agentId, st) ==
  LET hasNonExempt ==
        \E i \in 1..Len(st.agent.activeToolNames) :
           /\ st.agent.activeToolNames[i][1] \in st.agent.activeToolIds
           /\ st.agent.activeToolNames[i][2] \notin PermissionExempt(st.agent.provider)
  IN IF hasNonExempt /\ ~st.agent.permissionSent
     THEN Post([st EXCEPT !.agent.permissionSent = TRUE], AgentToolPermission(agentId))
     ELSE st

PermissionTimerFires(a) ==
  /\ a \in permissionTimers
  /\ TraceRoom
  /\ permissionTimers' = permissionTimers \ {a}
  /\ IF a \in Ids
     THEN LET st == PermissionTimerBody(a,
                      Ctx(agents[a], waitingTimers, permissionTimers \ {a}, genCount))
          IN /\ agents' = [agents EXCEPT ![a] = st.agent]
             /\ Observe("permissionTimer", a, NoLine, st.out)
             /\ log' = IF logging
                       THEN log \o <<Fired(a, "permission")>> \o OutAll(st.out) ELSE log
     ELSE /\ Observe("permissionTimer", a, NoLine, <<>>)
          /\ UNCHANGED <<agents, log>>
  /\ UNCHANGED <<agentOrder, nextAgentId, nextTerminalIndex, activeAgentId,
                 knownJsonlFiles, fileWatchers, pollingTimers, waitingTimers,
                 jsonlPollTimers, projectScanTimer, persisted, livePolls, nextHandle,
                 pendingDone, genCount, envVars, logging, delivered, restoredIds, staleIdle, toolSinceTurn>>

\* ------------------------------------------------------------------- Spec
AllLines == CodexLines \cup CursorLines

\* the lines of a short Codex or Cursor turn
CoreLines ==
  {Line(t, "", "") : t \in {"TurnStarted", "TurnEnded", "AgentMessageDelta",
                            "beforeSubmitPrompt", "stop", "afterShellExecution"}}
  \cup {Line("ExecCommandBegin", "a1", "ls -la"), Line("ExecCommandEnd", "a1", ""),
        Line("beforeShellExecution", "", "ls -la")}

Init0 == Init /\ logging = FALSE

\* the first launch of an activation
LaunchFirst(p) == nextAgentId = 1 /\ nextTerminalIndex = 1 /\ Launch(p)

Callbacks ==
  \/ \E q \in livePolls : JsonlPollTick(q)
  \/ ScanTick
  \/ ToolDoneFires
  \/ \E a \in waitingTimers : WaitingTimerFires(a)
  \/ \E a \in permissionTimers : PermissionTimerFires(a)

\* one launched agent under every message, notification and callback of the
\* extension, every line of its provider's vocabulary
Next ==
  \/ \E p \in PROVIDER_IDS : LaunchFirst(p)
  \/ \E t \in terminals \cup {NoTerminal} : ChangeActiveTerminal(t)
  \/ \E t \in terminals : CloseTerminal(t)
  \/ WebviewReady
  \/ \E f \in CreatablePaths : FileAppears(f)
  \/ \E a \in Ids, line \in AllLines : ProcessLine(a, line)
  \/ Callbacks

Spec == Init0 /\ [][Next]_vars

\* the lines either parser acts on
EventLines == {l \in AllLines : l.type \in ActivityTypes /\ (l.type = "ExecCommandEnd" => l.id # "")}

\* the parser and timers of one Codex or Cursor agent, from launch to the
\* closing of its terminal; one transcript file appears, and the agent stays on it
NextAgent ==
  \/ \E p \in {PROVIDER_CODEX, PROVIDER_CURSOR} : LaunchFirst(p)
  \/ \E t \in terminals : CloseTerminal(t)
  \/ \E f \in CreatablePaths : files = {} /\ FileAppears(f)
  \/ \E a \in Ids, line \in EventLines : ProcessLine(a, line)
  \/ Callbacks

SpecAgent == Init0 /\ [][NextAgent]_vars

\* one agent, with the trace of its inputs and posted messages recorded
InitLog == Init /\ logging = TRUE

NextLog ==
  \/ \E p \in {PROVIDER_CODEX, PROVIDER_CURSOR} : LaunchFirst(p)
  \/ \E f \in CreatablePaths : FileAppears(f)
  \/ \E a \in Ids, line \in CoreLines : ProcessLine(a, line)
  \/ Callbacks

SpecLog == InitLog /\ [][NextLog]_vars

\* ----------------------------------------------------------------- restart
\* the entry persistAgents writes for an agent launched with provider p as the
\* idx-th terminal of an earlier activation
PersistedOf(id, p, idx) ==
  LET result == launchTerminal(p, Cwd, id)
      terminal == IF needsTerminal(p) THEN terminalName(p, idx) ELSE NoTerminal
      agent == NewAgent(id, p, terminal, result.projectDir, result.jsonlFile)
  IN Snapshot(AgentsSet(<<>>, id, agent), <<id>>)[1]

\* an entry whose provider id is not in the provider registry of this build
UnknownProvider == "gemini"
UnknownEntry(id) ==
  [PersistedOf(id, PROVIDER_CURSOR, id) EXCEPT !.provider = UnknownProvider,
                                               !.terminalName = UnknownProvider]

\* workspaceState[WORKSPACE_KEY_AGENTS] as an earlier activation left it
Snapshots ==
  { <<>>,
    <<PersistedOf(1, PROVIDER_CURSOR, 1)>>,
    <<PersistedOf(1, PROVIDER_CLAUDE, 1)>>,
    <<PersistedOf(1, PROVIDER_CLAUDE, 1), PersistedOf(2, PROVIDER_CURSOR, 2)>>,
    <<UnknownEntry(1), PersistedOf(2, PROVIDER_CURSOR, 2)>>,
    <<PersistedOf(1, PROVIDER_CURSOR, 1), UnknownEntry(2)>> }

SnapshotTerminals(ps) ==
  {ps[i].terminalName : i \in {j \in 1..Len(ps) : ps[j].provider # ps[j].terminalName}}
SnapshotFiles(ps) == {ps[i].jsonlFile : i \in 1..Len(ps)} \ {NoPath}

\* activation of the extension in a window that an earlier activation used:
\* the snapshot is in workspaceState, some of its terminals are still open and
\* some of its transcripts exist
InitRestart ==
  /\ agents = <<>>
  /\ agentOrder = <<>>
  /\ nextAgentId = 1
  /\ nextTerminalIndex = 1
  /\ activeAgentId = NoAgent
  /\ knownJsonlFiles = {}
  /\ fileWatchers = {}
  /\ pollingTimers = {}
  /\ waitingTimers = {}
  /\ permissionTimers = {}
  /\ jsonlPollTimers = <<>>
  /\ projectScanTimer = NoPath
  /\ persisted \in Snapshots
  /\ livePolls = {}
  /\ pendingDone = <<>>
  /\ genCount = 0
  /\ nextHandle = 1
  /\ cwd = Cwd
  /\ terminals \in SUBSET SnapshotTerminals(persisted)
  /\ files \in SUBSET SnapshotFiles(persisted)
  /\ fileData = [f \in files |-> "a" \o NL]
  /\ readyCount = 0
  /\ emitted = <<>>
  /\ last = Step("init", NoAgent, NoLine)
  /\ logging = FALSE
  /\ log = <<>>
  /\ staleIdle = {}
  /\ toolSinceTurn = {}
  /\ restoredIds = {}
  /\ delivered = <<>>

\* the closeAgent message: terminalRef.dispose() of the agent, a TypeError when
\* terminalRef is null
CloseAgent(id) ==
  /\ LET known == id \in Ids
         threw == known /\ agents[id].terminalRef = NoTerminal
     IN /\ terminals' = IF known /\ ~threw
                        THEN terminals \ {agents[id].terminalRef} ELSE terminals
        /\ Observe(IF threw THEN "closeAgentThrew" ELSE "closeAgent", id, NoLine, <<>>)
  /\ UNCHANGED <<registryVars, waitingTimers, permissionTimers, pendingDone, genCount,
                 cwd, files, fileData, readyCount, logging, delivered, restoredIds, log, staleIdle,
                 toolSinceTurn>>

\* vscode.window.onDidCloseTerminal for a terminal the extension disposed
DisposedTerminalCloses(t) ==
  /\ t # NoTerminal
  /\ t \notin terminals
  /\ \E i \in Ids : agents[i].terminalRef = t
  /\ LET res == CloseLoop(agentOrder, t, [r |-> Registry, out |-> <<>>])
     IN /\ SetRegistry(res.r)
        /\ Observe("closeTerminal", NoAgent, NoLine, res.out)
        /\ staleIdle' = staleIdle \cap DOMAIN res.r.agents
        /\ toolSinceTurn' = toolSinceTurn \cap DOMAIN res.r.agents
        /\ restoredIds' = restoredIds \cap DOMAIN res.r.agents
  /\ UNCHANGED <<pendingDone, genCount, envVars, logging, delivered, log>>

DisposedTerminals == {agents[i].terminalRef : i \in Ids} \ (terminals \cup {NoTerminal})

\* a call of the exported removeAgent
RemoveAgentCall(id) ==
  /\ LET r == removeAgent(id, Registry)
     IN /\ SetRegistry(r)
        /\ staleIdle' = staleIdle \cap DOMAIN r.agents
        /\ toolSinceTurn' = toolSinceTurn \cap DOMAIN r.agents
        /\ restoredIds' = restoredIds \cap DOMAIN r.agents
  /\ Observe(IF id \in Ids THEN "removeAgent" ELSE "removeAbsent", id, NoLine, <<>>)
  /\ UNCHANGED <<pendingDone, genCount, envVars, logging, delivered, log>>

\* the registry of several agents, with no transcript lines
NextRegistry ==
  \/ \E p \in PROVIDER_IDS : Launch(p)
  \/ \E t \in terminals \cup {NoTerminal} : ChangeActiveTerminal(t)
  \/ \E t \in terminals : CloseTerminal(t)
  \/ \E id \in 1..MaxLaunches : CloseAgent(id)
  \/ \E t \in DisposedTerminals : DisposedTerminalCloses(t)
  \/ WebviewReady
  \/ \E f \in CreatablePaths : FileAppears(f)
  \/ \E q \in livePolls : JsonlPollTick(q)
  \/ ScanTick
SpecRegistry == InitRestart /\ [][NextRegistry]_vars

\* a snapshot that persistAgents of this build has written: every provider
\* id in it is registered
InitOwnSnapshot ==
  /\ InitRestart
  /\ \A i \in 1..Len(persisted) : persisted[i].provider \in PROVIDER_IDS

\* launches, removals and restores over a snapshot of an earlier activation
NextRoundTrip ==
  \/ \E p \in PROVIDER_IDS : Launch(p)
  \/ \E t \in terminals : CloseTerminal(t)
  \/ WebviewReady
SpecRoundTrip == InitOwnSnapshot /\ [][NextRoundTrip]_vars

\* the set of known transcript paths under launches, restore and the scanner
NextKnown ==
  \/ \E p \in {PROVIDER_CLAUDE, PROVIDER_CODEX} : Launch(p)
  \/ WebviewReady
  \/ \E f \in CreatablePaths : FileAppears(f)
  \/ ScanTick
SpecKnown == InitRestart /\ [][NextKnown]_vars

\* the CLI appends a byte to a transcript
GrowFile(f, b) ==
  /\ f \in files
  /\ b \in Bytes
  /\ fileSize[f] < MaxFileSize
  /\ fileData' = [fileData EXCEPT ![f] = @ \o b]
  /\ Observe("grow", NoAgent, NoLine, <<>>)
  /\ UNCHANGED <<registryVars, waitingTimers, permissionTimers, pendingDone, genCount,
                 cwd, terminals, files, readyCount, logging, delivered, log, staleIdle,
                 toolSinceTurn, restoredIds>>

\* the watcher or the polling timer of a tailed agent fires
TailTick(a) ==
  /\ a \in Ids
  /\ a \in pollingTimers
  /\ SetRegistry(readNewLines(a, Registry, fileData))
  /\ delivered' = Handed(delivered, a, Registry, fileData)
  /\ Observe("tail", a, ReadRange(agents[a], fileSize), <<>>)
  /\ UNCHANGED <<pendingDone, genCount, envVars, logging, log, staleIdle,
                 toolSinceTurn, restoredIds>>

\* restart and launch with transcripts that grow by whole lines, no parser
NextTail ==
  \/ \E p \in PROVIDER_IDS : LaunchFirst(p)
  \/ \E t \in terminals : CloseTerminal(t)
  \/ WebviewReady
  \/ \E f \in CreatablePaths : FileAppears(f)
  \/ \E f \in files : GrowFile(f, NL)
  \/ \E q \in livePolls : JsonlPollTick(q)
  \/ \E a \in Ids : TailTick(a)
SpecTail == InitRestart /\ [][NextTail]_vars

\* one launched agent whose transcript grows byte by byte between the polls
NextPoll ==
  \/ \E p \in PROVIDER_IDS : LaunchFirst(p)
  \/ \E f \in CreatablePaths : FileAppears(f)
  \/ \E f \in files, b \in Bytes : GrowFile(f, b)
  \/ \E q \in livePolls : JsonlPollTick(q)
  \/ \E a \in Ids : TailTick(a)
SpecPoll == Init0 /\ [][NextPoll]_vars

\* the CLI recreates a transcript: the file is empty again
TruncateFile(f) ==
  /\ f \in files
  /\ fileData[f] # ""
  /\ \A a \in DOMAIN delivered : Len(delivered[a]) < MaxFileSize
  /\ fileData' = [fileData EXCEPT ![f] = ""]
  /\ Observe("truncate", NoAgent, NoLine, <<>>)
  /\ UNCHANGED <<registryVars, waitingTimers, permissionTimers, pendingDone, genCount,
                 cwd, terminals, files, readyCount, logging, delivered, log, staleIdle,
                 toolSinceTurn, restoredIds>>

\* one launched agent whose transcript grows and is recreated, with a reload
\* of the webview
NextReset ==
  \/ \E p \in PROVIDER_IDS : LaunchFirst(p)
  \/ WebviewReady
  \/ \E f \in CreatablePaths : FileAppears(f)
  \/ \E f \in files, b \in Bytes : GrowFile(f, b)
  \/ \E f \in files : TruncateFile(f)
  \/ \E q \in livePolls : JsonlPollTick(q)
  \/ \E a \in Ids : TailTick(a)
SpecReset == Init0 /\ [][NextReset]_vars

\* one launched agent and the close requests of the webview; VS Code delivers
\* onDidCloseTerminal for every terminal that was disposed
NextClose ==
  \/ \E p \in PROVIDER_IDS : LaunchFirst(p)
  \/ \E t \in terminals \cup {NoTerminal} : ChangeActiveTerminal(t)
  \/ \E t \in terminals : CloseTerminal(t)
  \/ \E id \in 1..MaxLaunches : CloseAgent(id)
  \/ \E t \in DisposedTerminals : DisposedTerminalCloses(t)
  \/ WebviewReady
  \/ \E f \in CreatablePaths : FileAppears(f)
  \/ \E q \in livePolls : JsonlPollTick(q)
SpecClose ==
  /\ InitRestart
  /\ [][NextClose]_vars
  /\ WF_vars(\E t \in DisposedTerminals : DisposedTerminalCloses(t))

\* the registry of an activation that starts with a snapshot left by the last
\* one, under direct calls of removeAgent, with the two lines that arm the idle
\* and the permission timer
TimerLines ==
  {Line("AgentMessageDelta", "", ""), Line("ExecCommandBegin", "a1", "ls -la")}
NextRemove ==
  \/ \E p \in {PROVIDER_CODEX, PROVIDER_CURSOR} : Launch(p)
  \/ \E t \in terminals : CloseTerminal(t)
  \/ \E f \in CreatablePaths : FileAppears(f)
  \/ \E q \in livePolls : JsonlPollTick(q)
  \/ ScanTick
  \/ \E a \in Ids : \E line \in TimerLines : ProcessLine(a, line)
  \/ \E id \in 1..(MaxLaunches + 1) : RemoveAgentCall(id)
\* no terminal and no transcript file of the earlier activation is left
InitRemove == InitRestart /\ terminals = {} /\ files = {}
SpecRemove == InitRemove /\ [][NextRemove]_vars

\* the lines of a short turn with one shell tool, for either parser
PairLines ==
  {Line("ExecCommandBegin", "a1", "ls -la"), Line("ExecCommandEnd", "a1", ""),
   Line("AgentMessageDelta", "", ""), Line("TurnEnded", "", ""),
   Line("beforeShellExecution", "", "ls -la"), Line("afterShellExecution", "", ""),
   Line("stop", "", "")}

\* several Codex or Cursor agents side by side, each fed the lines of its own
\* transcript in any interleaving; one transcript file appears (Cursor agents
\* share the hook log)
NextPair ==
  \/ \E p \in {PROVIDER_CODEX, PROVIDER_CURSOR} : Launch(p)
  \/ \E f \in CreatablePaths : files = {} /\ FileAppears(f)
  \/ \E a \in Ids, line \in PairLines : ProcessLine(a, line)
  \/ Callbacks
SpecPair == Init0 /\ [][NextPair]_vars

\* lines no parser can act on: not a JSON record, or a record without a type
MalformedLines == {l \in AllLines : l.type \in {Malformed, ""}}

\* well-formed records of a type outside the vocabulary of both parsers
UnknownLines == {l \in AllLines : l.type \notin ActivityTypes \cup {Malformed, ""}}

\* one Codex or Cursor agent whose transcript holds unreadable lines and
\* records of unknown types among the lines of a short turn
NextParse ==
  \/ \E p \in {PROVIDER_CODEX, PROVIDER_CURSOR} : LaunchFirst(p)
  \/ \E t \in terminals : CloseTerminal(t)
  \/ \E f \in CreatablePaths : files = {} /\ FileAppears(f)
  \/ \E a \in Ids, line \in CoreLines \cup MalformedLines \cup UnknownLines :
        ProcessLine(a, line)
  \/ Callbacks

SpecParse == Init0 /\ [][NextParse]_vars

\* ArcadiaViewProvider.dispose: removeAgent for every id of the registry, then
\* the project scan timer is cleared and set to null
RECURSIVE DisposeLoop(_, _)
DisposeLoop(ids, r) ==
  IF ids = <<>> THEN r ELSE DisposeLoop(Tail(ids), removeAgent(Head(ids), r))

dispose(r) == [DisposeLoop(r.agentOrder, r) EXCEPT !.projectScanTimer = NoPath]

Dispose ==
  /\ LET r == dispose(Registry)
     IN /\ SetRegistry(r)
        /\ staleIdle' = staleIdle \cap DOMAIN r.agents
        /\ toolSinceTurn' = toolSinceTurn \cap DOMAIN r.agents
        /\ restoredIds' = restoredIds \cap DOMAIN r.agents
  /\ Observe("dispose", NoAgent, NoLine, <<>>)
  /\ UNCHANGED <<pendingDone, genCount, envVars, logging, delivered, log>>

\* the lines that open and close one shell tool and arm the timers, for
\* either parser
LaunchLines ==
  {Line("ExecCommandBegin", "a1", "ls -la"), Line("ExecCommandEnd", "a1", ""),
   Line("AgentMessageDelta", "", ""), Line("beforeShellExecution", "", "ls -la"),
   Line("afterShellExecution", "", "")}

\* a fresh activation: launches of every provider, with or without a
\* workspace folder, terminal closes, the agents' lines and callbacks, and
\* dispose
NextLaunch ==
  \/ \E p \in PROVIDER_IDS : Launch(p)
  \/ \E t \in terminals : CloseTerminal(t)
  \/ \E f \in CreatablePaths : files = {} /\ FileAppears(f)
  \/ \E a \in Ids, line \in LaunchLines : ProcessLine(a, line)
  \/ Callbacks
  \/ Dispose
SpecLaunch == Init0 /\ [][NextLaunch]_vars

\* the lines that begin and end a turn, start a tool or arm the idle timer
StatusLines ==
  {Line(t, "", "") : t \in {"TurnStarted", "TurnEnded", "UserMessage",
                            "AgentMessageDelta", "beforeSubmitPrompt", "stop"}}
  \cup {Line("ExecCommandBegin", "a1", "ls -la"),
        Line("beforeShellExecution", "", "ls -la"),
        Line("afterFileEdit", "", SomeFile)}

\* one agent with its trace recorded, under the lines that change its status
NextStatus ==
  \/ \E p \in {PROVIDER_CODEX, PROVIDER_CURSOR} : LaunchFirst(p)
  \/ \E f \in CreatablePaths : files = {} /\ FileAppears(f)
  \/ \E a \in Ids, line \in StatusLines : ProcessLine(a, line)
  \/ Callbacks
SpecStatus == InitLog /\ [][NextStatus]_vars

\* the same activation with focus changes and reloads of the webview
NextReload ==
  \/ \E p \in PROVIDER_IDS : Launch(p)
  \/ WebviewReady
  \/ \E t \in terminals \cup {NoTerminal} : ChangeActiveTerminal(t)
  \/ \E t \in terminals : CloseTerminal(t)
  \/ \E f \in CreatablePaths : files = {} /\ FileAppears(f)
  \/ \E a \in Ids, line \in LaunchLines : ProcessLine(a, line)
  \/ Callbacks
  \/ Dispose
SpecReload == Init0 /\ [][NextReload]_vars

\* ================================================================ properties
LastAgent == agents[last.id]
AfterLine(types) == last.op = "line" /\ last.line.type \in types
Posted(ev) == \E i \in 1..Len(emitted) : emitted[i] = ev
Pos(l, ev) == {i \in 1..Len(l) : l[i] = ev}
Min(S) == CHOOSE x \in S : \A y \in S : x <= y

\* --- C1
C1Lines ==
  <<Line("TurnStarted", "", ""), Line("ExecCommandBegin", "a1", "ls -la"),
    Line("ExecCommandEnd", "a1", ""), Line("TurnEnded", "", "")>>
\* agent 1, found by the scan, has been fed the four lines and nothing else,
\* and every scheduled callback has run
C1Fed ==
  /\ Stimuli(log) = <<Scanned(1)>> \o [i \in 1..4 |-> In(1, C1Lines[i])]
  /\ pendingDone = <<>>
C1From(line) == Min(Pos(log, In(1, line)))

\* C1 as stated: the four Codex lines post exactly agentStatus active,
\* agentToolStart(a1, "Running: ls -la"), agentToolDone(a1), agentToolsClear,
\* agentStatus waiting, in that order.
C1_AsStated ==
  C1Fed =>
    Outputs(SubSeq(log, C1From(C1Lines[1]), Len(log))) =
      <<Out(AgentStatus(1, "active")),
        Out(AgentToolStart(1, "a1", "Running: ls -la")),
        Out(AgentToolDone(1, "a1")),
        Out(AgentToolsClear(1)),
        Out(AgentStatus(1, "waiting"))>>

\* C1, amended: TurnStarted posts only agentToolsClear and agentStatus active,
\* ending with agentStatus active; ExecCommandBegin posts agentStatus active and
\* then agentToolStart(a1, "Running: ls -la"); TurnEnded, with no tool open,
\* posts agentStatus waiting and no agentToolsClear; agentToolDone(a1) is posted
\* once, after ExecCommandEnd, before or after agentStatus waiting.
C1_TurnTrace ==
  C1Fed =>
    LET b == C1From(C1Lines[2])
        opening == Outputs(SubSeq(log, C1From(C1Lines[1]), b - 1))
        rest == Outputs(SubSeq(log, b, Len(log)))
        active == Out(AgentStatus(1, "active"))
        start == Out(AgentToolStart(1, "a1", "Running: ls -la"))
        done == Out(AgentToolDone(1, "a1"))
        waiting == Out(AgentStatus(1, "waiting"))
    IN /\ opening # <<>>
       /\ opening[Len(opening)] = active
       /\ \A i \in 1..Len(opening) : opening[i] \in {Out(AgentToolsClear(1)), active}
       /\ rest \in {<<active, start, done, waiting>>, <<active, start, waiting, done>>}

\* the four lines are in and agentToolDone came after agentStatus waiting
C1_Witness ==
  /\ C1Fed
  /\ log[Len(log)] = Out(AgentToolDone(1, "a1"))
  /\ log[Len(log) - 1] = Out(AgentStatus(1, "waiting"))

\* --- C2
\* C2: right after a turn-end line (TurnEnded, afterAgentResponse, stop) the
\* agent's tool sets and maps are empty, isWaiting is true, permissionSent and
\* hadToolsInTurn are false.
C2_TurnEndState ==
  AfterLine(TurnEndTypes) =>
    /\ LastAgent.activeToolIds = {}
    /\ LastAgent.activeToolStatuses = <<>>
    /\ LastAgent.activeToolNames = <<>>
    /\ LastAgent.activeSubagentToolIds = <<>>
    /\ LastAgent.activeSubagentToolNames = <<>>
    /\ LastAgent.isWaiting
    /\ ~LastAgent.permissionSent
    /\ ~LastAgent.hadToolsInTurn

\* a turn-end line that found tools open and cleared them
C2_Witness == AfterLine(TurnEndTypes) /\ Posted(AgentToolsClear(last.id))

\* --- C3
IsTurnBoundary(e) ==
  \/ e.k = "in" /\ e.type \in TurnStartTypes \cup TurnEndTypes
  \/ e.k = "timer" /\ e.type = "waiting"
  \/ e.k = "scan"
LinePos(types, toolId) ==
  {i \in 1..Len(log) : log[i].k = "in" /\ log[i].type \in types /\ log[i].toolId = toolId}
OutPos(type, toolId) ==
  {i \in 1..Len(log) : log[i].k = "out" /\ log[i].type = type /\ log[i].toolId = toolId}
Scheduled(toolId) ==
  Cardinality({i \in 1..Len(pendingDone) : pendingDone[i].toolId = toolId})
ToolIdsPosted == {log[i].toolId : i \in {j \in 1..Len(log) : log[j].type = "agentToolStart"}}

\* C3 as stated: a tool-start line for a1 followed, anywhere later, by a
\* tool-end line for a1 gives exactly one agentToolStart and, once the delayed
\* callbacks have run, exactly one agentToolDone for a1.
C3_AsStated ==
  (/\ \E i \in LinePos({"ExecCommandBegin"}, "a1"), j \in LinePos({"ExecCommandEnd"}, "a1") : i < j
   /\ pendingDone = <<>>)
  => /\ Cardinality(OutPos("agentToolStart", "a1")) = 1
     /\ Cardinality(OutPos("agentToolDone", "a1")) = 1

\* the one tool-start line of these types (and id), its first tool-end line
\* after it, and no turn boundary, idle-timer firing or re-pointing between
C3Clean(startTypes, endTypes, toolId) ==
  /\ Cardinality(LinePos(startTypes, toolId)) = 1
  /\ LET i == Min(LinePos(startTypes, toolId))
         ends == {j \in LinePos(endTypes, toolId) : j > i}
     IN /\ ends # {}
        /\ \A k \in (i + 1)..(Min(ends) - 1) : ~IsTurnBoundary(log[k])
C3End(startTypes, endTypes, toolId) ==
  Min({j \in LinePos(endTypes, toolId) : j > Min(LinePos(startTypes, toolId))})

\* C3, amended: when the trace holds one tool-start line for T, and no
\* turn-start line, turn-end line, idle-timer firing or re-pointing of the
\* agent comes between it and the first tool-end line for T after it, then
\* exactly one agentToolStart is posted for T and exactly one agentToolDone is
\* scheduled for T, posted after the tool-end line and only by the delayed
\* callback.  For Codex T is the record's id; for Cursor, whose lines carry no
\* id, T is the one shell execution of the trace.
C3_OneStartOneDone ==
  /\ C3Clean({"ExecCommandBegin"}, {"ExecCommandEnd"}, "a1") =>
       /\ Cardinality(OutPos("agentToolStart", "a1")) = 1
       /\ Cardinality(OutPos("agentToolDone", "a1")) + Scheduled("a1") = 1
       /\ \A d \in OutPos("agentToolDone", "a1") :
            d > C3End({"ExecCommandBegin"}, {"ExecCommandEnd"}, "a1")
  /\ C3Clean({"beforeShellExecution"}, {"afterShellExecution"}, "") =>
       /\ Cardinality(ToolIdsPosted) = 1
       /\ \A t \in ToolIdsPosted :
            /\ Cardinality(OutPos("agentToolStart", t)) = 1
            /\ Cardinality(OutPos("agentToolDone", t)) + Scheduled(t) = 1
            /\ \A d \in OutPos("agentToolDone", t) :
                 d > C3End({"beforeShellExecution"}, {"afterShellExecution"}, "")
  /\ \A i \in 1..Len(emitted) :
       emitted[i].type = "agentToolDone" => last.op = "toolDone"

\* a1 started, another line came in between, a1 ended and its agentToolDone
\* has been posted
C3_Witness ==
  /\ C3Clean({"ExecCommandBegin"}, {"ExecCommandEnd"}, "a1")
  /\ OutPos("agentToolDone", "a1") # {}
  /\ \E k \in 1..Len(log) :
       /\ log[k].k = "in"
       /\ k > Min(LinePos({"ExecCommandBegin"}, "a1"))
       /\ k < C3End({"ExecCommandBegin"}, {"ExecCommandEnd"}, "a1")

\* --- C4
AgentEventTypes ==
  {"agentStatus", "agentToolStart", "agentToolDone", "agentToolsClear",
   "agentToolPermission"}

\* C4 as stated: no agentStatus, agentToolStart, agentToolDone,
\* agentToolsClear or agentToolPermission is posted for an id that is not in
\* agents.
C4_AsStated ==
  \A i \in 1..Len(emitted) :
    emitted[i].type \in AgentEventTypes => emitted[i].id \in Ids

\* --- C5
\* C5 as stated: an idle timer that was armed before a later event line of its
\* agent does not fire.
C5_AsStated ==
  [][~(last'.op = "waitingTimer" /\ last'.id \in staleIdle)]_vars

\* --- C6
\* C6 as stated: agentToolPermission is posted for an agent only by a step
\* that finds its permissionSent false.
C6_AsStated ==
  [][\A a \in Ids :
       (\E i \in 1..Len(emitted') : emitted'[i] = AgentToolPermission(a))
         => ~agents[a].permissionSent]_vars

\* --- C7
\* C7: for every agent the keys of activeToolStatuses and of activeToolNames
\* are exactly the members of activeToolIds, each key once.
C7_ToolKeysAgree ==
  \A a \in Ids :
    /\ MapKeys(agents[a].activeToolStatuses) = agents[a].activeToolIds
    /\ MapKeys(agents[a].activeToolNames) = agents[a].activeToolIds
    /\ Len(agents[a].activeToolStatuses) = Cardinality(agents[a].activeToolIds)
    /\ Len(agents[a].activeToolNames) = Cardinality(agents[a].activeToolIds)

\* a tool-end line has removed one tool while another stays open
C7_Witness ==
  /\ AfterLine(ToolEndTypes)
  /\ LastAgent.activeToolIds # {}
  /\ pendingDone # <<>>

C10_AsStated ==
  /\ fileWatchers \subseteq Ids
  /\ pollingTimers \subseteq Ids
  /\ waitingTimers \subseteq Ids
  /\ permissionTimers \subseteq Ids
  /\ DOMAIN jsonlPollTimers \subseteq Ids


\* --- C11
\* removeAgent is idempotent: removeAgent(id) applied to a registry that has no
\* agent id (never registered, or removed before) returns the registry as it
\* is -- every map, every timer, the persisted snapshot -- and removing twice
\* is removing once; the function has no webview to post to.
C11_RemoveIdempotent ==
  /\ \A id \in 1..(MaxLaunches + 1) :
       /\ id \notin Ids => removeAgent(id, Registry) = Registry
       /\ removeAgent(id, removeAgent(id, Registry)) = removeAgent(id, Registry)
  /\ last.op \in {"removeAgent", "removeAbsent"} => emitted = <<>>
\* removeAgent was called for an id that had been registered and removed, in a
\* registry that still holds another agent with an armed timer
C11_Witness ==
  /\ last.op = "removeAbsent"
  /\ readyCount = 0
  /\ last.id < nextAgentId
  /\ \E a \in Ids : a \in waitingTimers
  /\ \E a \in Ids : a \in permissionTimers
  /\ persisted # <<>>

\* --- C12
\* A webviewReady whose persisted list has an entry of an unknown provider
\* still restores every other entry whose terminal is live (or whose provider
\* needs none), tails it (watching the transcript or polling for it), and
\* leaves nextAgentId above the id of every restored entry.
C12_AsStated ==
  [][last'.op \in {"webviewReady", "webviewReadyThrew"} =>
       \A i \in 1..Len(persisted) :
         LET p == persisted[i]
             providerId == IF p.provider = "" THEN PROVIDER_CLAUDE ELSE p.provider
         IN (/\ providerId \in PROVIDER_IDS
             /\ needsTerminal(providerId) => p.terminalName \in terminals)
            => /\ p.id \in DOMAIN agents'
               /\ p.id \in fileWatchers' \/ p.id \in DOMAIN jsonlPollTimers'
               /\ nextAgentId' > p.id]_vars

\* --- C13
\* Agent ids are positive; launch gives a new agent an id that no agent in the
\* registry has, namely the counter, and moves the counter above it; the
\* counter never goes down (so the ids of launch strictly increase and none
\* is given twice); after restoreAgents the counter is above every id it
\* restored.
C13_AsStated ==
  [][/\ \A i \in DOMAIN agents' : i > 0
     /\ nextAgentId' >= nextAgentId
     /\ (last'.op = "launch" /\ last'.id # NoAgent) =>
          /\ last'.id \notin DOMAIN agents
          /\ last'.id = nextAgentId
          /\ nextAgentId' > last'.id
     /\ last'.op \in {"webviewReady", "webviewReadyThrew"} =>
          \A i \in RestoredIds(persisted, terminals) : nextAgentId' > i]_vars

\* --- C14
\* An agent created by restoreAgents has an empty lineBuffer, empty tool
\* structures and the three flags false; when tailing of its transcript
\* starts -- in restoreAgents for a file that exists, in an appearance poll
\* for one that appears later -- fileOffset is the size of the file and the
\* step hands no line of the file to the parser.
C14Fresh(a) ==
  /\ a.lineBuffer = ""
  /\ a.activeToolIds = {} /\ a.activeToolStatuses = <<>> /\ a.activeToolNames = <<>>
  /\ a.activeSubagentToolIds = <<>> /\ a.activeSubagentToolNames = <<>>
  /\ ~a.isWaiting /\ ~a.permissionSent /\ ~a.hadToolsInTurn
C14_AsStated ==
  [][/\ last'.op \in {"webviewReady", "webviewReadyThrew"} =>
          \A i \in RestoredIds(persisted, terminals) :
            /\ C14Fresh(agents'[i])
            /\ agents'[i].jsonlFile \in files =>
                 /\ i \in fileWatchers'
                 /\ agents'[i].fileOffset = fileSize[agents'[i].jsonlFile]
     /\ (/\ last'.op = "jsonlPoll"
         /\ last'.id \in restoredIds' \cap DOMAIN agents'
         /\ last'.id \notin fileWatchers) =>
          /\ last'.line = NoLine
          /\ agents'[last'.id].jsonlFile \in files =>
               agents'[last'.id].fileOffset = fileSize[agents'[last'.id].jsonlFile]]_vars

\* --- C15
\* The transcript path of every agent in the registry, launched or restored,
\* is in knownJsonlFiles whenever a handler has finished (launchNewTerminal
\* adds it before agents.set and before ensureProjectScan, restoreAgents in
\* the iteration that inserts the agent), so no scan tick finds an agent's own
\* transcript among the new files.
C15_OwnTranscriptKnown ==
  /\ \A i \in Ids : agents[i].jsonlFile # NoPath => agents[i].jsonlFile \in knownJsonlFiles
  /\ \A i \in Ids : agents[i].jsonlFile \notin NewFiles
\* a launched and a restored agent, the transcript of the launched one exists
\* in the directory the scan lists
C15_Witness ==
  \E i \in Ids \ restoredIds, j \in restoredIds \cap Ids :
    /\ agents[i].jsonlFile \in files
    /\ agents[j].jsonlFile # NoPath
    /\ projectScanTimer = Dirname(agents[i].jsonlFile)

\* --- C16
\* There is one scan timer per watched directory (the registry has a single
\* timer reference); the directory of every live agent whose provider uses
\* the scan is the one being scanned; and the step that removes the last
\* agent needing the scanned directory stops the timer.
C16ScanUsers(ags, dir) ==
  {i \in DOMAIN ags : usesProjectScan(ags[i].provider) /\ ags[i].projectDir = dir}
C16_AsStated ==
  [][/\ \A i \in DOMAIN agents' :
          usesProjectScan(agents'[i].provider) => projectScanTimer' = agents'[i].projectDir
     /\ (/\ projectScanTimer # NoPath
         /\ C16ScanUsers(agents, projectScanTimer) # {}
         /\ C16ScanUsers(agents', projectScanTimer) = {})
        => projectScanTimer' # projectScanTimer]_vars

\* --- C17
\* A closeAgent message for an agent in the registry, of any provider, leads
\* to a state in which the agent is gone and agentClosed was posted for it.
C17_AsStated ==
  \A id \in 1..MaxLaunches :
    (last.op \in {"closeAgent", "closeAgentThrew"} /\ last.id = id /\ id \in Ids)
      ~> (id \notin Ids /\ Posted(AgentClosed(id)))

\* --- C18
\* As stated: a permission-timer firing posts agentToolPermission only if a
\* tool of the agent is open, and whenever the permission timer of an agent
\* is armed the agent has an open tool.
C18_AsStated ==
  [][/\ (/\ last'.op = "permissionTimer"
         /\ \E i \in 1..Len(emitted') : emitted'[i] = AgentToolPermission(last'.id))
        => last'.id \in Ids /\ agents[last'.id].activeToolIds # {}
     /\ \A a \in permissionTimers' \cap DOMAIN agents' :
          agents'[a].activeToolIds # {}]_vars
\* A permission-timer firing posts agentToolPermission only if a tool of the
\* agent is open at that moment (with no tool open it posts nothing, changes
\* nothing); every line that opens a tool and every output line of an open
\* tool leaves the timer armed anew, so the tools open at a firing have been
\* silent since the timer was armed.  The timer may stay armed after the last
\* tool has ended.
C18_FiresOnlyOnOpenTool ==
  [][/\ (/\ last'.op = "permissionTimer"
         /\ \E i \in 1..Len(emitted') : emitted'[i] = AgentToolPermission(last'.id))
        => /\ last'.id \in Ids
           /\ agents[last'.id].activeToolIds # {}
           /\ agents'[last'.id].activeToolIds = agents[last'.id].activeToolIds
     /\ (/\ last'.op = "permissionTimer"
         /\ last'.id \in Ids
         /\ agents[last'.id].activeToolIds = {})
        => emitted' = <<>> /\ agents' = agents
     /\ (last'.op = "line" /\ last'.id \in Ids) =>
          /\ agents'[last'.id].activeToolIds \ agents[last'.id].activeToolIds # {}
               => last'.id \in permissionTimers'
          /\ (/\ last'.line.type = "ExecOutputDelta"
              /\ last'.line.id \in agents[last'.id].activeToolIds)
               => last'.id \in permissionTimers']_vars
\* the timer fired after the last tool of the turn had ended, and posted nothing
C18_Witness ==
  /\ last.op = "permissionTimer"
  /\ last.id \in Ids \cap toolSinceTurn
  /\ agents[last.id].activeToolIds = {}
  /\ emitted = <<>>

\* --- C19
\* the calls of generateToolId, by number, whose tool is open with the given kind
C19Open(agent, kind) ==
  {n \in 1..MaxGenIds :
     /\ generateToolId(n) \in agent.activeToolIds
     /\ \E i \in 1..Len(agent.activeToolNames) :
          agent.activeToolNames[i] = <<generateToolId(n), kind>>}
\* A Cursor tool-end line closes, of the open tools of its kind, the one whose
\* tool start was processed first (the earliest call of generateToolId), and
\* no other tool; with no open tool of that kind it closes nothing.  The
\* closed tool's agentToolDone is scheduled.
C19_ClosesOldestOfKind ==
  [][(/\ last'.op = "line"
      /\ last'.line.type \in {"afterShellExecution", "afterFileEdit", "afterMCPExecution"}
      /\ last'.id \in Ids
      /\ agents[last'.id].provider = PROVIDER_CURSOR)
     => LET a == agents[last'.id]
            b == agents'[last'.id]
            open == C19Open(a, CursorToolName(last'.line.type))
        IN IF open = {}
           THEN b.activeToolIds = a.activeToolIds
           ELSE /\ b.activeToolIds = a.activeToolIds \ {generateToolId(Min(open))}
                /\ MapKeys(b.activeToolNames) = b.activeToolIds
                /\ pendingDone' = Append(pendingDone,
                                         [id |-> last'.id,
                                          toolId |-> generateToolId(Min(open))])]_vars
\* a shell tool-end line has been processed and the second shell tool is
\* still open: two shell tools were open, the first one was closed
C19_Witness ==
  /\ last.op = "line" /\ last.line.type = "afterShellExecution"
  /\ last.id \in Ids
  /\ LastAgent.activeToolIds = {generateToolId(2)}
  /\ LastAgent.activeToolNames = <<<<generateToolId(2), "Bash">>>>

\* --- C20
\* Processing a line that is not a record, or a record without a type,
\* completes as any other line does, posts nothing, schedules nothing,
\* generates no tool id, leaves every agent's state, both timer maps and the
\* watcher of the agent as they were, and every line of the agent's vocabulary
\* is afterwards processed to the same result as it would have been without
\* the unreadable line.
C20_MalformedIgnored ==
  [][(last'.op = "line" /\ last'.line.type \in {Malformed, ""})
     => /\ emitted' = <<>>
        /\ agents' = agents
        /\ waitingTimers' = waitingTimers
        /\ permissionTimers' = permissionTimers
        /\ pendingDone' = pendingDone
        /\ genCount' = genCount
        /\ last'.id \in pollingTimers'
        /\ \A l \in LinesOf(agents[last'.id].provider) :
             processLine(last'.id, l,
                         processLine(last'.id, last'.line,
                                     Ctx(agents[last'.id], waitingTimers,
                                         permissionTimers, genCount)))
             = processLine(last'.id, l,
                           Ctx(agents[last'.id], waitingTimers,
                               permissionTimers, genCount))]_vars
\* an unreadable line was processed while a tool was open and both timers armed
C20_Witness ==
  /\ last.op = "line" /\ last.line.type \in {Malformed, ""}
  /\ last.id \in Ids
  /\ LastAgent.activeToolIds # {}
  /\ last.id \in permissionTimers
  /\ last.id \in waitingTimers

\* --- C21
\* Processing a well-formed record whose type neither parser knows posts
\* nothing, schedules nothing, generates no tool id and leaves every agent's
\* state and both timer maps as they were.
C21_UnknownIgnored ==
  [][(last'.op = "line" /\ last'.line \in UnknownLines)
     => /\ emitted' = <<>>
        /\ agents' = agents
        /\ waitingTimers' = waitingTimers
        /\ permissionTimers' = permissionTimers
        /\ pendingDone' = pendingDone
        /\ genCount' = genCount]_vars
\* a record of unknown type was processed while a tool was open and both
\* timers were armed
C21_Witness ==
  /\ last.op = "line" /\ last.line \in UnknownLines
  /\ last.id \in Ids
  /\ LastAgent.activeToolIds # {}
  /\ last.id \in permissionTimers
  /\ last.id \in waitingTimers

\* --- C22
\* the scheduled agentToolDone callbacks of the agents other than i
C22OthersPending(pending, i) == SelectSeq(pending, LAMBDA d : d.id # i)
C23Fresh(ps) ==
  [agents |-> <<>>, agentOrder |-> <<>>, nextAgentId |-> 1, nextTerminalIndex |-> 1,
   activeAgentId |-> NoAgent, knownJsonlFiles |-> {}, fileWatchers |-> {},
   pollingTimers |-> {}, waitingTimers |-> {}, permissionTimers |-> {},
   jsonlPollTimers |-> <<>>, projectScanTimer |-> NoPath, persisted |-> ps,
   livePolls |-> {}, nextHandle |-> 1]
\* the agent has the durable fields of the snapshot entry
C23Same(a, p) ==
  /\ a.id = p.id /\ a.provider = p.provider
  /\ a.jsonlFile = p.jsonlFile /\ a.projectDir = p.projectDir
\* the snapshot lists exactly the agents of the registry, with their fields
C23Lists(ps, ags) ==
  /\ Len(ps) = Cardinality(DOMAIN ags)
  /\ \A a \in DOMAIN ags : \E i \in 1..Len(ps) : ps[i].id = a
  /\ \A i \in 1..Len(ps) : ps[i].id \in DOMAIN ags /\ C23Same(ags[ps[i].id], ps[i])
\* Whatever the registry holds, persisting it and restoring the snapshot in a
\* new activation, with any subset of the terminals still open, brings back
\* exactly the agents that have no terminal or whose terminal is open, with
\* the same id, provider, transcript path and project directory.  A restore
\* step brings back every such entry of the stored snapshot, and after every
\* launch, removal and restore the stored snapshot lists exactly the agents of
\* the registry.
C23_RoundTrip ==
  [][/\ \A T \in SUBSET terminals :
          LET back == restoreAgents(C23Fresh(Snapshot(agents, agentOrder)), T, fileSize).agents
          IN /\ DOMAIN back = {a \in Ids : agents[a].terminalRef \in T \cup {NoTerminal}}
             /\ \A a \in DOMAIN back :
                  C23Same(back[a], [id |-> a, provider |-> agents[a].provider,
                                    jsonlFile |-> agents[a].jsonlFile,
                                    projectDir |-> agents[a].projectDir])
     /\ last'.op = "webviewReady" =>
          \A i \in 1..Len(persisted) :
             (needsTerminal(persisted[i].provider) => persisted[i].terminalName \in terminals)
             => /\ persisted[i].id \in DOMAIN agents'
                /\ C23Same(agents'[persisted[i].id], persisted[i])
     /\ (\/ last'.op = "webviewReady"
         \/ last'.op = "closeTerminal" /\ DOMAIN agents' # DOMAIN agents
         \/ last'.op = "launch" /\ last'.id # NoAgent)
        => C23Lists(persisted', agents')]_vars
\* a restore has brought back an agent with a terminal and a terminal-less
\* agent, and dropped nothing
C23_Witness ==
  /\ last.op = "webviewReady"
  /\ \E i, j \in restoredIds \cap Ids :
       /\ agents[i].terminalRef # NoTerminal
       /\ agents[j].terminalRef = NoTerminal
       /\ agents[i].jsonlFile # NoPath

\* --- C24
\* While a transcript only grows, whatever is appended between two polls, the
\* lines handed to the parser for an agent are, in order and each once, the
\* complete lines of the part of the file read so far, the bytes after the last
\* terminator are held in lineBuffer and never handed on, and a poll that
\* finds the file unchanged hands nothing on and leaves the AgentState alone.
C24HandedOf(d, a) == IF a \in DOMAIN d THEN d[a] ELSE <<>>
C24_LinesOnce ==
  [][/\ \A a \in DOMAIN agents' :
          agents'[a].jsonlFile \in files' =>
            /\ agents'[a].fileOffset <= Len(fileData'[agents'[a].jsonlFile])
            /\ C24HandedOf(delivered', a) \o <<agents'[a].lineBuffer>>
                 = Split(SubSeq(fileData'[agents'[a].jsonlFile], 1, agents'[a].fileOffset), "")
     /\ (/\ last'.op = "tail"
         /\ agents[last'.id].jsonlFile \in files
         /\ agents[last'.id].fileOffset = Len(fileData[agents[last'.id].jsonlFile])) =>
          /\ agents' = agents
          /\ delivered' = delivered
          /\ last'.line = NoLine]_vars
\* a poll that starts behind a held byte and hands on the line it completes
\* together with the line after it
C24_Witness ==
  /\ last.op = "tail"
  /\ last.line = Line("<read>", "1", "3")
  /\ C24HandedOf(delivered, last.id) = <<"a", "">>
  /\ agents[last.id].lineBuffer = ""
\* --- C25
\* The fileOffset of an agent decreases only in a step that finds the agent's
\* transcript shorter than fileOffset, and that step is a reset: either
\* fileOffset is 0 and nothing is held, or the whole file has been read from
\* offset 0, its complete lines handed on and only what follows its last
\* terminator held.  Either way no byte held before the step is still held.
C25Whole(a) == Split(fileData[agents[a].jsonlFile], "")
C25_AsStated ==
  [][\A a \in DOMAIN agents \cap DOMAIN agents' :
       agents'[a].fileOffset < agents[a].fileOffset =>
         /\ agents[a].jsonlFile \in files
         /\ Len(fileData[agents[a].jsonlFile]) < agents[a].fileOffset
         /\ \/ /\ agents'[a].fileOffset = 0
               /\ agents'[a].lineBuffer = ""
               /\ delivered' = delivered
            \/ /\ agents'[a].fileOffset = Len(fileData[agents[a].jsonlFile])
               /\ agents'[a].lineBuffer = C25Whole(a)[Len(C25Whole(a))]
               /\ C24HandedOf(delivered', a)
                    = C24HandedOf(delivered, a)
                      \o SubSeq(C25Whole(a), 1, Len(C25Whole(a)) - 1)]_vars
\* --- C26
\* A turn-end line (TurnEnded, afterAgentResponse, stop) leaves neither the
\* idle nor the permission timer of its agent armed and posts agentStatus
\* waiting last; when a tool was open before the line it posts agentToolsClear
\* and then the status, and when none was open it posts the status alone.
C26_TurnEndEvents ==
  [][(last'.op = "line" /\ last'.line.type \in TurnEndTypes) =>
       /\ last'.id \notin waitingTimers'
       /\ last'.id \notin permissionTimers'
       /\ emitted' # <<>>
       /\ emitted'[Len(emitted')] = AgentStatus(last'.id, "waiting")
       /\ agents[last'.id].activeToolIds # {} =>
            emitted' = <<AgentToolsClear(last'.id), AgentStatus(last'.id, "waiting")>>
       /\ agents[last'.id].activeToolIds = {} =>
            emitted' = <<AgentStatus(last'.id, "waiting")>>]_vars
\* a turn-end line that found a tool open and one that found none
C26_Witness ==
  /\ last.op = "line"
  /\ last.line.type \in TurnEndTypes
  /\ emitted = <<AgentToolsClear(last.id), AgentStatus(last.id, "waiting")>>
  /\ last.id \notin waitingTimers \cup permissionTimers
\* --- C27
\* A Codex AgentMessageDelta line posts nothing and leaves the AgentState, the
\* permission timers and the scheduled callbacks as they were; with
\* hadToolsInTurn false it arms the idle timer anew, with hadToolsInTurn true it
\* leaves the idle timer as it was (armed and not restarted, or unarmed).  No
\* line of a Cursor agent arms an idle timer.
C27_TextArmsIdleTimer ==
  [][/\ (/\ last'.op = "line"
         /\ last'.line.type = "AgentMessageDelta"
         /\ agents[last'.id].provider = PROVIDER_CODEX) =>
          /\ emitted' = <<>>
          /\ agents' = agents
          /\ permissionTimers' = permissionTimers
          /\ pendingDone' = pendingDone
          /\ ~agents[last'.id].hadToolsInTurn =>
               /\ waitingTimers' = waitingTimers \cup {last'.id}
               /\ last'.id \notin staleIdle'
          /\ agents[last'.id].hadToolsInTurn =>
               /\ waitingTimers' = waitingTimers
               /\ last'.id \in waitingTimers => last'.id \in staleIdle'
     /\ (last'.op = "line" /\ agents[last'.id].provider = PROVIDER_CURSOR) =>
          waitingTimers' \subseteq waitingTimers]_vars
\* streaming text of a turn without tools, with the idle timer armed by it
C27_Witness ==
  /\ last.op = "line"
  /\ last.line.type = "AgentMessageDelta"
  /\ LastAgent.provider = PROVIDER_CODEX
  /\ ~LastAgent.hadToolsInTurn
  /\ last.id \in waitingTimers
  /\ last.id \notin staleIdle
\* --- C28
\* The tick of a launch's appearance poll that finds the transcript removes the
\* poll of that id from the running intervals and from jsonlPollTimers, starts
\* file watching for an agent that was not watched before, and reads the file
\* from offset 0: the complete lines already in it are handed on.  Nothing but
\* that tick starts file watching, so it is started once.  A launch with a
\* transcript path registers the path and one poll; a launch with an empty
\* transcript path (Codex) adds no poll and leaves knownJsonlFiles as it was.
C28Whole(a) == Split(fileData[agents[a].jsonlFile], "")
C28_LaunchPoll ==
  [][/\ last'.op = "jsonlPoll" =>
          /\ ~ \E q \in livePolls' : q.id = last'.id
          /\ last'.id \notin DOMAIN jsonlPollTimers'
          /\ last'.id \notin fileWatchers \cup pollingTimers
          /\ last'.id \in fileWatchers' \cap pollingTimers'
          /\ agents[last'.id].fileOffset = 0
          /\ agents'[last'.id].fileOffset = Len(fileData[agents[last'.id].jsonlFile])
          /\ C24HandedOf(delivered, last'.id) = <<>>
          /\ C24HandedOf(delivered', last'.id)
               = SubSeq(C28Whole(last'.id), 1, Len(C28Whole(last'.id)) - 1)
     /\ last'.op # "jsonlPoll" => fileWatchers' = fileWatchers
     /\ (last'.op = "launch" /\ last'.id # NoAgent) =>
          IF agents'[last'.id].jsonlFile = NoPath
          THEN /\ livePolls' = livePolls
               /\ jsonlPollTimers' = jsonlPollTimers
               /\ knownJsonlFiles' = knownJsonlFiles
          ELSE /\ \E q \in livePolls' \ livePolls :
                    /\ q.id = last'.id
                    /\ q.path = agents'[last'.id].jsonlFile
                    /\ livePolls' = livePolls \cup {q}
               /\ last'.id \in DOMAIN jsonlPollTimers'
               /\ knownJsonlFiles' = knownJsonlFiles \cup {agents'[last'.id].jsonlFile}]_vars
\* the poll of a launch finds a transcript that already holds a complete line
C28_Witness ==
  /\ last.op = "jsonlPoll"
  /\ C24HandedOf(delivered, last.id) # <<>>
  /\ last.id \in fileWatchers
  /\ livePolls = {}
\* --- C29
\* At webviewReady, a persisted entry of a provider that needs a terminal is
\* restored when a live terminal has the persisted name, bound to that
\* terminal, and is skipped otherwise: the agent of its id, if there is one, is
\* left as it was.  An entry of the provider that needs no terminal is always
\* restored.  The snapshot written at the end holds no skipped entry.
C29ProviderOf(p) == IF p.provider = "" THEN PROVIDER_CLAUDE ELSE p.provider
C30Posted(l, type, a, t, upTo) ==
  Cardinality({i \in 1..upTo :
                 l[i].k = "out" /\ l[i].type = type /\ l[i].id = a /\ l[i].toolId = t})
C30Pending(pending, a, t) ==
  Cardinality({i \in 1..Len(pending) : pending[i].id = a /\ pending[i].toolId = t})
C30_DoneFollowsStart ==
  [][/\ \A d \in 1..Len(log') :
          (log'[d].k = "out" /\ log'[d].type = "agentToolDone") =>
            C30Posted(log', "agentToolDone", log'[d].id, log'[d].toolId, d)
              <= C30Posted(log', "agentToolStart", log'[d].id, log'[d].toolId, d - 1)
     /\ \A i \in 1..Len(pendingDone') :
          C30Posted(log', "agentToolDone", pendingDone'[i].id, pendingDone'[i].toolId, Len(log'))
            + C30Pending(pendingDone', pendingDone'[i].id, pendingDone'[i].toolId)
          <= C30Posted(log', "agentToolStart", pendingDone'[i].id, pendingDone'[i].toolId, Len(log'))
     /\ (/\ last'.op = "line"
         /\ last'.line.type = "ExecCommandEnd"
         /\ last'.line.id \notin agents[last'.id].activeToolIds) =>
          /\ emitted' = <<>>
          /\ pendingDone' = pendingDone
          /\ agents'[last'.id].activeToolIds = agents[last'.id].activeToolIds
          /\ agents'[last'.id].activeToolStatuses = agents[last'.id].activeToolStatuses
          /\ agents'[last'.id].activeToolNames = agents[last'.id].activeToolNames]_vars
\* a tool id started, ended and reported done, and then a second end line for
\* it, when it is no longer open
C30_Witness ==
  /\ last.op = "line"
  /\ last.line = Line("ExecCommandEnd", "a1", "")
  /\ emitted = <<>>
  /\ pendingDone = <<>>
  /\ C30Posted(log, "agentToolDone", last.id, "a1", Len(log)) = 1
  /\ C30Posted(log, "agentToolStart", last.id, "a1", Len(log)) = 1
  /\ LastAgent.activeToolIds = {}
\* --- C31
\* A launch that cannot proceed (no workspace folder; the registered providers
\* return a location whenever they are given the terminal they need) leaves
\* agents, knownJsonlFiles, nextAgentId, activeAgentId, every timer map, the
\* scan timer and the persisted snapshot as they were, and posts no
\* agentCreated.
C31_FailedLaunchNoEffect ==
  [][(last'.op = "launch" /\ last'.id = NoAgent) =>
       /\ UNCHANGED <<agents, agentOrder, knownJsonlFiles, nextAgentId, activeAgentId,
                      fileWatchers, pollingTimers, waitingTimers, permissionTimers,
                      jsonlPollTimers, livePolls, projectScanTimer, persisted>>
       /\ \A i \in 1..Len(emitted') : emitted'[i].type # "agentCreated"]_vars
\* the second launch without a workspace folder has failed: the terminals of
\* both attempts are open, no agent exists
C31_Witness ==
  /\ last.op = "launch" /\ last.id = NoAgent
  /\ cwd = NoPath /\ nextTerminalIndex = 3 /\ terminals # {}
  /\ nextAgentId = 1 /\ Ids = {}

\* --- C32
\* Launch draws the ids in increasing order, so each id is created once; the
\* step that creates agent id posts agentCreated{id} and nothing else and
\* makes id the focused agent; no other step posts agentCreated; and every
\* agentStatus, agentToolStart, agentToolDone, agentToolsClear and
\* agentToolPermission carries an id that a launch has already created.
C32Kinds ==
  {"agentStatus", "agentToolStart", "agentToolDone", "agentToolsClear",
   "agentToolPermission"}
C32_CreatedFirst ==
  [][/\ (last'.op = "launch" /\ last'.id # NoAgent) =>
          /\ last'.id = nextAgentId
          /\ nextAgentId' = nextAgentId + 1
          /\ last'.id \in DOMAIN agents' \ DOMAIN agents
          /\ Len(emitted') = 1
          /\ emitted'[1].type = "agentCreated" /\ emitted'[1].id = last'.id
          /\ activeAgentId' = last'.id
     /\ \A i \in 1..Len(emitted') :
          /\ emitted'[i].type = "agentCreated" =>
                last'.op = "launch" /\ emitted'[i].id = last'.id
          /\ emitted'[i].type \in C32Kinds => emitted'[i].id < nextAgentId
     /\ nextAgentId' >= nextAgentId]_vars
\* the second agent, launched after the first, has just had a tool announced
C32_Witness ==
  /\ last.op = "line" /\ last.id = 2
  /\ Posted(AgentToolStart(2, "a1", "Running: ls -la"))
  /\ nextAgentId = 3

\* --- C33
\* In the state dispose leaves, the registry has no agent, fileWatchers,
\* pollingTimers, waitingTimers, permissionTimers and jsonlPollTimers are
\* empty, and the project scan timer is null.
C33_AsStated ==
  last.op = "dispose" =>
    /\ Ids = {} /\ agentOrder = <<>>
    /\ fileWatchers = {} /\ pollingTimers = {}
    /\ waitingTimers = {} /\ permissionTimers = {}
    /\ DOMAIN jsonlPollTimers = {}
    /\ projectScanTimer = NoPath

\* --- C34
\* In every state, a Codex or Cursor agent that is waiting tracks no open
\* tool: isWaiting implies activeToolIds = {}.
C34_WaitingHasNoTool ==
  \A i \in Ids :
    (agents[i].provider \in {PROVIDER_CODEX, PROVIDER_CURSOR} /\ agents[i].isWaiting)
      => agents[i].activeToolIds = {}
\* a turn end that found a tool open has cleared it and set the flag
C34_Witness ==
  /\ AfterLine(TurnEndTypes) /\ last.id \in Ids
  /\ LastAgent.isWaiting /\ LastAgent.activeToolIds = {}
  /\ Posted(AgentToolsClear(last.id))

\* --- C35
\* After every processed line the agent's isWaiting flag is true exactly when
\* the last agentStatus message posted for the agent said waiting (and false
\* when none has been posted yet).
C35Statuses(id) ==
  SelectSeq(log, LAMBDA e : e.k = "out" /\ e.type = "agentStatus" /\ e.id = id)
C35LastWaiting(id) ==
  LET st == C35Statuses(id) IN st # <<>> /\ st[Len(st)].status = "waiting"
C36_AsStated ==
  (last.op = "toolDone" /\ last.id \in Ids) =>
     last.line.id \notin LastAgent.activeToolIds

\* --- C37
\* No two agents that are in the registry at the same time have the same
\* non-empty transcript path.
C37_AsStated ==
  \A i, j \in Ids :
    (i # j /\ agents[i].jsonlFile # NoPath) => agents[i].jsonlFile # agents[j].jsonlFile

\* --- C38
\* A webviewReady step (restoreAgents) leaves every agent that was in the
\* registry as it was: its tool tracking, isWaiting and fileOffset are
\* unchanged, and afterwards at most one transcript-appearance poll is running
\* for its id.
C38Tracking(a) ==
  <<a.activeToolIds, a.activeToolStatuses, a.activeToolNames, a.isWaiting, a.fileOffset>>
C38_AsStated ==
  [][last'.op \in {"webviewReady", "webviewReadyThrew"} =>
       \A i \in Ids :
         /\ i \in DOMAIN agents'
         /\ C38Tracking(agents'[i]) = C38Tracking(agents[i])
         /\ Cardinality({q \in livePolls' : q.id = i}) <= 1]_vars

\* --- C39
\* In every state the focused agent, if there is one, is in the registry.
C39_AsStated == activeAgentId = NoAgent \/ activeAgentId \in Ids

====
